---- MODULE Spec2Model ----
(***************************************************************************)
(* torch2pprof: the conversion of a PyTorch trace (a list of interval      *)
(* events) into a pprof profile.                                           *)
(*                                                                         *)
(*   internal/profile/profile.go   Builder: the interning tables, guarded  *)
(*                                 by a sync.RWMutex                       *)
(*   internal/converter/trace.go   getTid, ProcessThreadEvents,            *)
(*                                 ConvertTrace (printed in                *)
(*                                 src/cmd/torch2pprof/main.go)            *)
(*                                                                         *)
(* The specifications:                                                     *)
(*   Spec         one run of ConvertTrace on an input event list           *)
(*   FairSpec     Spec under the Go scheduler's fairness                   *)
(*   OptionSpec   Spec with ConvertOptions.NumWorkers = 1, 2, ...          *)
(*   BuilderSpec  goroutines calling the Builder's operations concurrently *)
(*   KeySpec      Spec on events whose raw thread ids are of several types *)
(*   EncodeSpec   calls of Profile.Encode on one profile                   *)
(*   VarintSpec   one call of encodeVarint, on 64-bit words                *)
(*   GetTidSpec   one call of getTid, on 64-bit words                      *)
(*   AnalyzeSpec  one call of AnalyzeTrace                                 *)
(*   StackSpec    one call of ProcessThreadEvents, rule by rule            *)
(*   LoadSpec     one call of LoadTraceFile                                *)
(*   LockSpec     BuilderSpec on one call of each kind, under fairness     *)
(*                                                                         *)
(* Strings are TLA+ strings and are joined with \o, as the code joins them *)
(* with +.  Go slices and the String Table are 0-based; the sequences here *)
(* are 1-based, so handle h of the String Table is StringTable[h + 1].     *)
(* Times (TraceEvent.Ts, TraceEvent.Dur) are float64 microseconds in the   *)
(* code; here they are integers counting ticks of 1/TicksPerUs             *)
(* microsecond, so that a duration need not be a whole number of           *)
(* nanoseconds.                                                            *)
(***************************************************************************)
EXTENDS Integers, Sequences, FiniteSets, TLC

VARIABLES
    traceEvents,    \* ConvertTrace's input: traceData.TraceEvents
    opts,           \* ConvertTrace's input: the ConvertOptions
    pc,             \* where ConvertTrace's own goroutine is
    threadEvents,   \* map[int64][]eventWithEnd, grouped and sorted
    pb,             \* the Builder: profile, stringIndex, functionIndex, locationIndex
    mu,             \* Builder.mu, the sync.RWMutex
    results,        \* the buffered channel's content, oldest first
    closed,         \* whether close(results) has run
    wg,             \* the sync.WaitGroup's counter
    workers,        \* per thread key: the worker goroutine (pc, next event, stack)
    closer,         \* the goroutine that waits for wg and closes results
    processedCount, \* the shared progress counter
    sampleMap,      \* map[string]*sampleData of the aggregation loop
    emitted,        \* history: per thread key, the samples its worker has sent
    merged,         \* history: per sampleMap key, the frame chains merged into it
    nClose,         \* history: how many times close(results) has run
    g,              \* BuilderSpec: per goroutine, the Builder call in progress
    calls,          \* BuilderSpec: Builder calls started so far
    returned,       \* history: the calls that returned, with their results
    prof,           \* EncodeSpec: the Profile that Encode is called on
    buf,            \* EncodeSpec: Encode's output buffer
    encPc,          \* EncodeSpec: the part of Encode that runs next
    fcall           \* a call of encodeVarint, getTid or AnalyzeTrace: its
                    \* argument, its locals and its result

vars == <<traceEvents, opts, pc, threadEvents, pb, mu, results, closed, wg,
          workers, closer, processedCount, sampleMap, emitted, merged, nClose,
          g, calls, returned, prof, buf, encPc, fcall>>

convertVars == <<traceEvents, opts, pc, threadEvents, results, closed, wg,
                 workers, closer, processedCount, sampleMap, emitted, merged,
                 nClose>>

builderVars == <<g, calls, returned>>

encodeVars == <<prof, buf, encPc>>

----------------------------------------------------------------------------
(* Bounds of the model.                                                    *)

\* Longest input event list.
MaxEvents == 3

\* Ticks per microsecond: the resolution of Ts and Dur in the model.
TicksPerUs == 2000

\* Capacity of the results channel in the model (10000 in the code).
ResultsCap == 2

\* Builder calls started in one behaviour of BuilderSpec.
MaxCalls == 3

\* Largest ConvertOptions.NumWorkers of OptionSpec.
MaxWorkers == 2

\* Longest list (sample types, samples, locations, functions, strings) of a
\* Profile that EncodeSpec encodes.
MaxRepeat == 2

\* Calls of Encode on one Profile in a behaviour of EncodeSpec.
MaxEncodes == 2

----------------------------------------------------------------------------
(* Strings.                                                                *)

\* The byte "\x00" that joins name and category into an index key.
NUL == "0"

\* The separator the aggregation loop puts after each frame of a key.
SEMI == ";"

EmptyMap == [k \in {} |-> 0]

Has(m, k) == k \in DOMAIN m

Put(m, k, v) == [x \in DOMAIN m \cup {k} |-> IF x = k THEN v ELSE m[x]]

Range(s) == {s[i] : i \in DOMAIN s}

----------------------------------------------------------------------------
(* 64-bit integers.  Where a value needs all 64 bits (encodeVarint's       *)
(* argument, the hash of a string tid) it is a word: its four 16-bit       *)
(* limbs, the lowest first.  An int64 and the uint64 of the same bits are  *)
(* the same word.                                                          *)

Limb == 2 ^ 16

Words == [1..4 -> 0..(Limb - 1)]

Zero64 == <<0, 0, 0, 0>>

\* The word of a number n, 0 <= n < 2^31.
Uint64(n) == <<n % Limb, n \div Limb, 0, 0>>

\* The word of an int64 n, -2^31 < n < 2^31: two's complement.
Int64(n) ==
    IF n >= 0 THEN Uint64(n)
    ELSE LET m == -n - 1
         IN  <<(Limb - 1) - (m % Limb), (Limb - 1) - (m \div Limb),
               Limb - 1, Limb - 1>>

\* The largest and the smallest int64.
MaxInt64 == <<Limb - 1, Limb - 1, Limb - 1, (Limb \div 2) - 1>>

MinInt64 == <<0, 0, 0, Limb \div 2>>

\* A mutation: the sum stops at the largest value instead of wrapping.
MulAdd_Saturating(w, m, a) ==
    LET t1 == w[1] * m + a
        t2 == w[2] * m + t1 \div Limb
        t3 == w[3] * m + t2 \div Limb
        t4 == w[4] * m + t3 \div Limb
    IN  IF t4 \div Limb > 0
        THEN [word |-> <<Limb - 1, Limb - 1, Limb - 1, Limb - 1>>, carry |-> 0]
        ELSE [word  |-> <<t1 % Limb, t2 % Limb, t3 % Limb, t4 % Limb>>,
              carry |-> 0]

\* w * m + a, for a small multiplier m and a small addend a: the low 64
\* bits as a word, and what is carried out of them.
MulAdd(w, m, a) ==
    LET t1 == w[1] * m + a
        t2 == w[2] * m + t1 \div Limb
        t3 == w[3] * m + t2 \div Limb
        t4 == w[4] * m + t3 \div Limb
    IN  [word  |-> <<t1 % Limb, t2 % Limb, t3 % Limb, t4 % Limb>>,
         carry |-> t4 \div Limb]

\* A mutation: the word is shifted by a whole byte.
Shr7_ByAByte(w) ==
    [i \in 1..4 |-> w[i] \div 256 + (IF i < 4 THEN (w[i + 1] % 256) * 256 ELSE 0)]

\* v >> 7 of a uint64 v
Shr7(w) ==
    [i \in 1..4 |-> w[i] \div 128 + (IF i < 4 THEN (w[i + 1] % 128) * 512 ELSE 0)]

\* byte(v): the low eight bits.
LowByte(w) == w[1] % 256

\* v >= 0x80
AtLeast128(w) == w[1] >= 128 \/ w[2] # 0 \/ w[3] # 0 \/ w[4] # 0

----------------------------------------------------------------------------
(* internal/profile: the Builder.                                          *)

NewBuilder ==
    [profile |-> [SampleType |-> <<>>, Sample |-> <<>>, Location |-> <<>>,
                  Function |-> <<>>, StringTable |-> <<"">>,
                  TimeNanos |-> 0, DurationNanos |-> 0,
                  PeriodType |-> <<>>, Period |-> 0],
     stringIndex |-> [s \in {""} |-> 0],
     functionIndex |-> EmptyMap,
     locationIndex |-> EmptyMap]

\* key := name + "\x00" + filename
IndexKey(name, filename) == name \o NUL \o filename

\* A mutation: the handle is taken after the append, one past the slot.
addStringLocked_IndexAfterAppend(b, s) ==
    IF Has(b.stringIndex, s)
    THEN [pb |-> b, ret |-> b.stringIndex[s]]
    ELSE LET idx == Len(b.profile.StringTable) + 1
         IN  [pb  |-> [b EXCEPT !.profile.StringTable = Append(@, s),
                                !.stringIndex = Put(@, s, idx)],
              ret |-> idx]

\* A mutation: the string is appended without looking it up.
addStringLocked_NoLookup(b, s) ==
    LET idx == Len(b.profile.StringTable)
    IN  [pb  |-> [b EXCEPT !.profile.StringTable = Append(@, s),
                           !.stringIndex = Put(@, s, idx)],
         ret |-> idx]

\* addStringLocked: the caller holds the write lock.
addStringLocked(b, s) ==
    IF Has(b.stringIndex, s)
    THEN [pb |-> b, ret |-> b.stringIndex[s]]
    ELSE LET idx == Len(b.profile.StringTable)
         IN  [pb  |-> [b EXCEPT !.profile.StringTable = Append(@, s),
                                !.stringIndex = Put(@, s, idx)],
              ret |-> idx]

\* A mutation: no second look-up once the write lock is held.
AddStringWrite_NoRecheck(b, s) ==
    LET idx == Len(b.profile.StringTable)
    IN  [pb  |-> [b EXCEPT !.profile.StringTable = Append(@, s),
                           !.stringIndex = Put(@, s, idx)],
         ret |-> idx]

\* AddString from pb.mu.Lock() on: the double check and the append.
AddStringWrite(b, s) ==
    IF Has(b.stringIndex, s)
    THEN [pb |-> b, ret |-> b.stringIndex[s]]
    ELSE LET idx == Len(b.profile.StringTable)
         IN  [pb  |-> [b EXCEPT !.profile.StringTable = Append(@, s),
                                !.stringIndex = Put(@, s, idx)],
              ret |-> idx]

\* A mutation: the string is appended whether or not the table holds it.
AddString_AlwaysAppend(b, s) ==
    LET idx == Len(b.profile.StringTable)
    IN  [pb  |-> [b EXCEPT !.profile.StringTable = Append(@, s),
                           !.stringIndex = Put(@, s, idx)],
         ret |-> idx]

\* AddString when no other goroutine runs between its two critical sections.
AddString(b, s) ==
    IF Has(b.stringIndex, s)
    THEN [pb |-> b, ret |-> b.stringIndex[s]]
    ELSE AddStringWrite(b, s)

\* A mutation: the new Function's id is the list's length, not length + 1.
NextFunctionId_FromZero(b) == Len(b.profile.Function)

\* id := uint64(len(pb.profile.Function) + 1)
NextFunctionId(b) == Len(b.profile.Function) + 1

\* id := uint64(len(pb.profile.Location) + 1)
NextLocationId(b) == Len(b.profile.Location) + 1

\* The Function literal, its append and its index entry, under the write lock.
NewFunction(b, name, filename) ==
    LET id == NextFunctionId(b)
        r1 == addStringLocked(b, name)
        r2 == addStringLocked(r1.pb, name)
        r3 == addStringLocked(r2.pb, filename)
        fn == [Id |-> id, Name |-> r1.ret, SystemName |-> r2.ret,
               Filename |-> r3.ret]
    IN  [pb  |-> [r3.pb EXCEPT !.profile.Function = Append(@, fn),
                               !.functionIndex =
                                   Put(@, IndexKey(name, filename), id)],
         ret |-> id]

\* GetOrCreateFunction from pb.mu.Lock() on.
GetOrCreateFunctionWrite(b, name, filename) ==
    LET key == IndexKey(name, filename)
    IN  IF Has(b.functionIndex, key)
        THEN [pb |-> b, ret |-> b.functionIndex[key]]
        ELSE NewFunction(b, name, filename)

\* GetOrCreateFunction when no other goroutine runs in between.
GetOrCreateFunction(b, name, filename) ==
    LET key == IndexKey(name, filename)
    IN  IF Has(b.functionIndex, key)
        THEN [pb |-> b, ret |-> b.functionIndex[key]]
        ELSE GetOrCreateFunctionWrite(b, name, filename)

\* funcId := pb.functionIndex[key]: 0 for a key the map does not hold.
FunctionIndexAt(b, key) ==
    IF Has(b.functionIndex, key) THEN b.functionIndex[key] ELSE 0

\* GetOrCreateLocation from pb.mu.Lock() on.
GetOrCreateLocationWrite(b, name, filename) ==
    LET key == IndexKey(name, filename)
    IN  IF Has(b.locationIndex, key)
        THEN [pb |-> b, ret |-> b.locationIndex[key]]
        ELSE LET rf == IF FunctionIndexAt(b, key) = 0
                       THEN NewFunction(b, name, filename)
                       ELSE [pb |-> b, ret |-> FunctionIndexAt(b, key)]
                 id  == NextLocationId(rf.pb)
                 loc == [Id |-> id,
                         Line |-> <<[FunctionId |-> rf.ret, Line |-> 0]>>]
             IN  [pb  |-> [rf.pb EXCEPT !.profile.Location = Append(@, loc),
                                        !.locationIndex = Put(@, key, id)],
                  ret |-> id]

\* GetOrCreateLocation when no other goroutine runs in between.
GetOrCreateLocation(b, name, filename) ==
    LET key == IndexKey(name, filename)
    IN  IF Has(b.locationIndex, key)
        THEN [pb |-> b, ret |-> b.locationIndex[key]]
        ELSE GetOrCreateLocationWrite(b, name, filename)

\* The ValueType a SetSampleTypes / SetPeriodType step builds from two handles.
ValueType(type, unit) == [Type |-> type, Unit |-> unit]

RECURSIVE SetSampleTypes(_, _)
\* SetSampleTypes when no other goroutine runs in between.
SetSampleTypes(b, types) ==
    IF types = <<>>
    THEN b
    ELSE LET t  == Head(types)
             r1 == AddString(b, t[1])
             r2 == AddString(r1.pb, t[2])
             b2 == [r2.pb EXCEPT !.profile.SampleType =
                                     Append(@, ValueType(r1.ret, r2.ret))]
         IN  SetSampleTypes(b2, Tail(types))

\* SetPeriodType when no other goroutine runs in between.
SetPeriodType(b, typeName, unit) ==
    LET r1 == AddString(b, typeName)
        r2 == AddString(r1.pb, unit)
    IN  [r2.pb EXCEPT !.profile.PeriodType = <<ValueType(r1.ret, r2.ret)>>]

----------------------------------------------------------------------------
(* internal/profile: the encoder.  A byte is a number in 0..255, a byte    *)
(* slice a sequence of bytes.  The values encoded here are not negative,   *)
(* so uint64(v) is v.                                                      *)

RECURSIVE encodeVarint(_)
\* for v >= 0x80 { append byte(v)|0x80; v >>= 7 }; append byte(v)
encodeVarint(v) ==
    IF v >= 128
    THEN <<(v % 128) + 128>> \o encodeVarint(v \div 128)
    ELSE <<v>>

\* encodeVarint(uint64((fieldNum << 3) | wireType)), with wireType < 8
encodeTag(fieldNum, wireType) == encodeVarint(fieldNum * 8 + wireType)

\* A mutation: the length written counts its own byte too.
LengthDelimited_OneMore(fieldNum, msg) ==
    encodeTag(fieldNum, 2) \o encodeVarint(Len(msg) + 1) \o msg

\* The three appends Encode makes for a nested message or a string: the
\* tag with wire type 2, the length of the payload, the payload.
LengthDelimited(fieldNum, msg) ==
    encodeTag(fieldNum, 2) \o encodeVarint(Len(msg)) \o msg

\* The two appends for a scalar: the tag with wire type 0, the value.
VarintField(fieldNum, v) == encodeTag(fieldNum, 0) \o encodeVarint(v)

RECURSIVE Concat(_)
\* The byte slices of a list appended one after another.
Concat(slices) ==
    IF slices = <<>> THEN <<>> ELSE Head(slices) \o Concat(Tail(slices))

encodeValueType(vt) == VarintField(1, vt.Type) \o VarintField(2, vt.Unit)

\* var packed []byte; for each element: packed = append(packed, varint...)
Packed(values) ==
    Concat([i \in DOMAIN values |-> encodeVarint(values[i])])

\* A mutation: the two lists are written under each other's field number.
encodeSample_ValueAsField1(s) ==
    (IF Len(s.LocationId) > 0
     THEN LengthDelimited(2, Packed(s.LocationId)) ELSE <<>>)
    \o (IF Len(s.Value) > 0
        THEN LengthDelimited(1, Packed(s.Value)) ELSE <<>>)

encodeSample(s) ==
    (IF Len(s.LocationId) > 0
     THEN LengthDelimited(1, Packed(s.LocationId)) ELSE <<>>)
    \o (IF Len(s.Value) > 0
        THEN LengthDelimited(2, Packed(s.Value)) ELSE <<>>)

encodeLine(line) ==
    VarintField(1, line.FunctionId)
    \o (IF line.Line # 0 THEN VarintField(2, line.Line) ELSE <<>>)

encodeLocation(loc) ==
    VarintField(1, loc.Id)
    \o Concat([i \in DOMAIN loc.Line |->
                  LengthDelimited(4, encodeLine(loc.Line[i]))])

encodeFunction(fn) ==
    VarintField(1, fn.Id) \o VarintField(2, fn.Name)
    \o VarintField(3, fn.SystemName) \o VarintField(4, fn.Filename)

\* []byte(s): the UTF-8 bytes of the strings of the model.
Bytes(s) ==
    CASE s = ""    -> <<>>
      [] s = "a"   -> <<97>>
      [] s = "c"   -> <<99>>
      [] s = "cpu" -> <<99, 112, 117>>

----------------------------------------------------------------------------
(* internal/converter: events, thread keys, stack reconstruction.          *)

\* int64(v) of a float64 v = num / den: truncation toward zero.
TruncDiv(num, den) == IF num >= 0 THEN num \div den ELSE -((-num) \div den)

RECURSIVE HashCodes(_, _)
\* for _, c := range v { h = h*31 + int64(c) }, over the code points of v.
HashCodes(h, codes) ==
    IF codes = <<>> THEN h
    ELSE HashCodes(h * 31 + Head(codes), Tail(codes))

\* getTid.  A raw tid is a record tagged with its dynamic type: "float64"
\* (num / den), "int" and "int64" (v), "string" (codes), anything else.
getTid(tid) ==
    CASE tid.kind = "float64" -> TruncDiv(tid.num, tid.den)
      [] tid.kind = "int"     -> tid.v
      [] tid.kind = "int64"   -> tid.v
      [] tid.kind = "string"  -> HashCodes(0, tid.codes)
      [] OTHER                -> 0

\* A mutation: the duration is not looked at.
Kept_AnyDuration(e) == e.Ph = "X"

\* if e.Ph != "X" || e.Dur <= 0 { continue }
Kept(e) == e.Ph = "X" /\ e.Dur > 0

\* eventWithEnd{TraceEvent: e, End: e.Ts + e.Dur}
WithEnd(e) == [Ph |-> e.Ph, Cat |-> e.Cat, Name |-> e.Name, Tid |-> e.Tid,
               Ts |-> e.Ts, Dur |-> e.Dur, End |-> e.Ts + e.Dur]

RECURSIVE MapWithEnd(_)
MapWithEnd(events) ==
    IF events = <<>> THEN <<>>
    ELSE <<WithEnd(Head(events))>> \o MapWithEnd(Tail(events))

\* The keys of threadEvents after the grouping loop.
ThreadKeys(events) == {getTid(events[i].Tid) : i \in {j \in DOMAIN events : Kept(events[j])}}

\* A mutation: the events are grouped by the raw id, not by getTid of it.
GroupOf_ByRawId(events, tid) ==
    MapWithEnd(SelectSeq(events, LAMBDA e :
        /\ Kept(e)
        /\ e.Tid = events[CHOOSE i \in DOMAIN events :
                       Kept(events[i]) /\ getTid(events[i].Tid) = tid].Tid))

\* threadEvents[tid] after the grouping loop: the kept events of that key,
\* in input order.
GroupOf(events, tid) ==
    MapWithEnd(SelectSeq(events, LAMBDA e : Kept(e) /\ getTid(e.Tid) = tid))

\* The bijections of 1..n.
Perms(n) == {p \in [1..n -> 1..n] : \A i, j \in 1..n : p[i] = p[j] => i = j}

\* What sort.Slice with less(i, j) = events[i].Ts < events[j].Ts may leave:
\* any arrangement in ascending Ts (sort.Slice is not a stable sort).
SortOutcomes(events) ==
    LET n == Len(events)
    IN  {[i \in 1..n |-> events[p[i]]] :
            p \in {q \in Perms(n) :
                      \A i \in 1..n, j \in 1..n :
                          i < j => ~(events[q[j]].Ts < events[q[i]].Ts)}}

\* durNs := int64(event.Dur * 1000)
NsPerUs == 1000

DurNs(dur) == TruncDiv(dur * NsPerUs, TicksPerUs)

RECURSIVE PopEnded(_, _)
\* for len(stack) > 0 && stack[len(stack)-1].event.End < event.Ts { pop }
PopEnded(stack, event) ==
    IF Len(stack) > 0 /\ stack[Len(stack)].event.End < event.Ts
    THEN PopEnded(SubSeq(stack, 1, Len(stack) - 1), event)
    ELSE stack

\* A mutation: an entry that ends with the event is not kept.
KeepContaining_Strict(stack, event) ==
    SelectSeq(stack, LAMBDA s : s.event.End > event.End)

\* A mutation: the comparison is turned round, so that the entries kept are
\* those the event outlasts.
KeepContaining_Reversed(stack, event) ==
    SelectSeq(stack, LAMBDA s : s.event.End <= event.End)

\* newStack: only the entries that end no earlier than the event.
KeepContaining(stack, event) ==
    SelectSeq(stack, LAMBDA s : s.event.End >= event.End)

\* The stack entry pushed for an event.
StackEntry(event) == [event |-> event, name |-> event.Name, cat |-> event.Cat]

\* The active stack an event is given, after both removals.
StackBefore(stack, event) == KeepContaining(PopEnded(stack, event), event)

\* The stackSample sent for an event whose ancestors are `stack`.
SampleOf(stack, event) ==
    LET n == Len(stack)
    IN  [stack  |-> [i \in 1..(n + 1) |->
                        IF i <= n THEN stack[i].name \o NUL \o stack[i].cat
                        ELSE event.Name \o NUL \o event.Cat],
         names  |-> [i \in 1..(n + 1) |->
                        IF i <= n THEN stack[i].name ELSE event.Name],
         cats   |-> [i \in 1..(n + 1) |->
                        IF i <= n THEN stack[i].cat ELSE event.Cat],
         timeNs |-> DurNs(event.Dur)]

RECURSIVE ThreadSamples(_, _)
\* ProcessThreadEvents on a thread's sorted events, from the active stack
\* `stack` on: the samples it sends, in order.
ThreadSamples(events, stack) ==
    IF events = <<>> THEN <<>>
    ELSE LET event == Head(events)
             st    == StackBefore(stack, event)
         IN  <<SampleOf(st, event)>>
                 \o ThreadSamples(Tail(events), Append(st, StackEntry(event)))

----------------------------------------------------------------------------
(* ConvertTrace: the aggregation loop's operators.                         *)

RECURSIVE KeyOf(_)
\* key := ""; for _, s := range sample.stack { key += s + ";" }
KeyOf(stack) ==
    IF stack = <<>> THEN ""
    ELSE (Head(stack) \o SEMI) \o KeyOf(Tail(stack))

RECURSIVE ResolveFrom_RootFirst(_, _, _, _)
\* A mutation: the ids are stored in the order of the stack, root first.
ResolveFrom_RootFirst(b, sample, i, ids) ==
    LET n == Len(sample.names)
    IN  IF i > n THEN [pb |-> b, ret |-> ids]
        ELSE LET r == GetOrCreateLocation(b, sample.names[i], sample.cats[i])
             IN  ResolveFrom_RootFirst(r.pb, sample, i + 1,
                                       [ids EXCEPT ![i] = r.ret])

RECURSIVE ResolveFrom(_, _, _, _)
\* The loop over sample.names from index i on (1-based): each frame's
\* Location is looked up or created, and stored leaf first.
ResolveFrom(b, sample, i, ids) ==
    LET n == Len(sample.names)
    IN  IF i > n THEN [pb |-> b, ret |-> ids]
        ELSE LET r == GetOrCreateLocation(b, sample.names[i], sample.cats[i])
             IN  ResolveFrom(r.pb, sample, i + 1,
                             [ids EXCEPT ![n + 1 - i] = r.ret])

\* locationIds := make([]uint64, len(sample.names)) and the loop filling it.
LocationIds(b, sample) ==
    ResolveFrom(b, sample, 1, [i \in 1..Len(sample.names) |-> 0])

\* A mutation: a repeated stack is counted but its duration is dropped.
Accumulate_CountOnly(existing, sample) ==
    [existing EXCEPT !.count = @ + 1]

\* A mutation: a repeated stack starts its entry afresh.
Accumulate_Replace(existing, sample) ==
    [existing EXCEPT !.count = 1, !.timeNs = sample.timeNs]

\* existing.count++; existing.timeNs += sample.timeNs
Accumulate(existing, sample) ==
    [existing EXCEPT !.count = @ + 1, !.timeNs = @ + sample.timeNs]

\* A mutation: the first occurrence of a stack is not counted.
NewSampleData_CountFromZero(locationIds, sample) ==
    [locationIds |-> locationIds, count |-> 0, timeNs |-> sample.timeNs]

\* &sampleData{locationIds: locationIds, count: 1, timeNs: sample.timeNs}
NewSampleData(locationIds, sample) ==
    [locationIds |-> locationIds, count |-> 1, timeNs |-> sample.timeNs]

\* The frame chain of a stackSample: its (name, category) pairs, root first.
ChainOf(sample) ==
    [i \in 1..Len(sample.names) |-> <<sample.names[i], sample.cats[i]>>]

\* The arrangements of a finite set in a sequence (a map's iteration order).
Orderings(S) ==
    {f \in [1..Cardinality(S) -> S] :
        \A i, j \in 1..Cardinality(S) : f[i] = f[j] => i = j}

\* A mutation: the two values change places.
ProfileSample_DurationFirst(s) ==
    [LocationId |-> s.locationIds, Value |-> <<s.timeNs, s.count>>]

\* &profile.Sample{LocationId: s.locationIds, Value: []int64{s.count, s.timeNs}}
ProfileSample(s) ==
    [LocationId |-> s.locationIds, Value |-> <<s.count, s.timeNs>>]

\* pb.Build().Period = 1000000
PeriodValue == 1000000

\* The Builder as ConvertTrace sets it up before it starts the workers.
PreparedBuilder ==
    LET b1 == SetSampleTypes(NewBuilder, << <<"samples", "count">>,
                                            <<"time", "nanoseconds">> >>)
        b2 == SetPeriodType(b1, "cpu", "nanoseconds")
    IN  [b2 EXCEPT !.profile.Period = PeriodValue]

\* One round of the aggregation loop on the pair (Builder, sampleMap): the
\* sample is added to the entry of its key, or resolved and given one.
Aggregate(st, sample) ==
    LET key == KeyOf(sample.stack)
    IN  IF Has(st.sampleMap, key)
        THEN [st EXCEPT !.sampleMap[key] = Accumulate(@, sample)]
        ELSE LET r == LocationIds(st.pb, sample)
             IN  [pb        |-> r.pb,
                  sampleMap |-> Put(st.sampleMap, key,
                                    NewSampleData(r.ret, sample))]

RECURSIVE AggregateAll(_, _)
\* The aggregation loop over the samples in the order they arrive.
AggregateAll(st, samples) ==
    IF samples = <<>> THEN st
    ELSE AggregateAll(Aggregate(st, Head(samples)), Tail(samples))

\* The profile ConvertTrace returns when the samples arrive in this order.
ProfileAfter(samples) ==
    LET st    == AggregateAll([pb |-> PreparedBuilder, sampleMap |-> EmptyMap],
                              samples)
        order == CHOOSE o \in Orderings(DOMAIN st.sampleMap) : TRUE
    IN  [st.pb.profile EXCEPT
            !.Sample = [i \in 1..Len(order) |->
                           ProfileSample(st.sampleMap[order[i]])]]

----------------------------------------------------------------------------
(* The inputs of the model.                                                *)

IntTid(v) == [kind |-> "int", v |-> v]

Event(ph, name, cat, tid, ts, dur) ==
    [Ph |-> ph, Cat |-> cat, Name |-> name, Tid |-> tid, Ts |-> ts, Dur |-> dur]

\* The events an input list is drawn from.  Thread 1: "a"/"c" as the outer
\* interval [0, 4); the two pairs whose index keys coincide ("a0b"/"c" and
\* "a"/"b0c") as the inner interval [1, 3); "a0b"/"c" also as [1, 5), which
\* starts with them and overlaps [0, 4) without nesting.  Thread 2:
\* "a"/"b0c", whose index key is that of thread 1's "a0b"/"c", as [1, 4),
\* 1.5 ns long.  And three events that ConvertTrace skips: a wrong phase, a
\* zero and a negative duration.
EventPool ==
    {Event("X", "a", "c", IntTid(1), 0, 4),
     Event("X", "a0b", "c", IntTid(1), 1, 2),
     Event("X", "a", "b0c", IntTid(1), 1, 2),
     Event("X", "a0b", "c", IntTid(1), 1, 4),
     Event("X", "a", "b0c", IntTid(2), 1, 3),
     Event("B", "a", "c", IntTid(1), 0, 4),
     Event("X", "a0b", "c", IntTid(1), 1, 0),
     Event("X", "a", "c", IntTid(2), 0, -1)}

Inputs == UNION {[1..n -> EventPool] : n \in 0..MaxEvents}

----------------------------------------------------------------------------
(* Spec: one run of ConvertTrace.                                          *)

\* The options ConvertTrace is called with.
ConvertOptions(numWorkers) == [NumWorkers |-> numWorkers]

\* No Encode call is in progress.
EncodeIdle ==
    /\ prof = NewBuilder.profile
    /\ buf = <<>>
    /\ encPc = "none"

\* No call of encodeVarint, getTid, AnalyzeTrace, LoadTraceFile or (in
\* StackSpec) ProcessThreadEvents is in progress.
NoCall == [fn |-> "none"]

\* ConvertTrace is entered with an event list and options out of these sets.
ConvertInit(inputs, options) ==
    /\ traceEvents \in inputs
    /\ opts \in options
    /\ pc = "start"
    /\ threadEvents = EmptyMap
    /\ pb = NewBuilder
    /\ mu = [readers |-> 0, writer |-> FALSE]
    /\ results = <<>>
    /\ closed = FALSE
    /\ wg = 0
    /\ workers = EmptyMap
    /\ closer = "none"
    /\ processedCount = 0
    /\ sampleMap = EmptyMap
    /\ emitted = EmptyMap
    /\ merged = EmptyMap
    /\ nClose = 0
    /\ g = EmptyMap
    /\ calls = 0
    /\ returned = {}
    /\ EncodeIdle
    /\ fcall = NoCall

Init == ConvertInit(Inputs, {ConvertOptions(1)})

\* ConvertTrace up to the workers' start: the events are grouped by thread
\* key, each group is sorted by Ts, the Builder is created and set up, the
\* channel made.
Prepare ==
    /\ pc = "start"
    /\ \E te \in [ThreadKeys(traceEvents) ->
                    UNION {SortOutcomes(GroupOf(traceEvents, k)) :
                              k \in ThreadKeys(traceEvents)}] :
          /\ \A k \in ThreadKeys(traceEvents) :
                 te[k] \in SortOutcomes(GroupOf(traceEvents, k))
          /\ threadEvents' = te
    /\ pb' = PreparedBuilder
    /\ workers' = [k \in ThreadKeys(traceEvents) |->
                      [pc |-> "unborn", i |-> 1, stack |-> <<>>]]
    /\ emitted' = [k \in ThreadKeys(traceEvents) |-> <<>>]
    /\ pc' = "spawn"
    /\ UNCHANGED <<traceEvents, opts, mu, results, closed, wg, closer,
                   processedCount, sampleMap, merged, nClose, builderVars, encodeVars, fcall>>

\* One round of the loop over threadEvents: wg.Add(1); go func(events) {...}.
\* A map is ranged over in any order.
Spawn(t) ==
    /\ pc = "spawn"
    /\ workers[t].pc = "unborn"
    /\ wg' = wg + 1
    /\ workers' = [workers EXCEPT ![t].pc = "run"]
    /\ UNCHANGED <<traceEvents, opts, pc, threadEvents, pb, mu, results, closed,
                   closer, processedCount, sampleMap, emitted, merged, nClose,
                   builderVars, encodeVars, fcall>>

\* go func() { wg.Wait(); close(results) }(), after the last worker's start.
SpawnCloser ==
    /\ pc = "spawn"
    /\ \A t \in DOMAIN workers : workers[t].pc # "unborn"
    /\ closer' = "wait"
    /\ pc' = "aggregate"
    /\ UNCHANGED <<traceEvents, opts, threadEvents, pb, mu, results, closed, wg,
                   workers, processedCount, sampleMap, emitted, merged, nClose,
                   builderVars, encodeVars, fcall>>

\* results <- sample goes through once the buffer has room.
CanSend == Len(results) < ResultsCap

\* A mutation: the active stack is one variable of ConvertTrace, which
\* every worker reads and writes.
WorkerStep_SharedStack(t) ==
    /\ workers[t].pc = "run"
    /\ workers[t].i <= Len(threadEvents[t])
    /\ CanSend
    /\ LET event  == threadEvents[t][workers[t].i]
           stack  == StackBefore(workers[t].stack, event)
           sample == SampleOf(stack, event)
       IN  /\ results' = Append(results, sample)
           /\ workers' = [u \in DOMAIN workers |->
                             [workers[u] EXCEPT
                                 !.stack = Append(stack, StackEntry(event)),
                                 !.i = IF u = t THEN @ + 1 ELSE @]]
           /\ emitted' = [emitted EXCEPT ![t] = Append(@, sample)]
    /\ processedCount' = processedCount + 1
    /\ UNCHANGED <<traceEvents, opts, pc, threadEvents, pb, mu, closed, wg, closer,
                   sampleMap, merged, nClose, builderVars, encodeVars, fcall>>

\* A mutation: the worker resolves the frames of its sample on the Builder
\* it was handed.
WorkerStep_Interning(t) ==
    /\ workers[t].pc = "run"
    /\ workers[t].i <= Len(threadEvents[t])
    /\ CanSend
    /\ LET event  == threadEvents[t][workers[t].i]
           stack  == StackBefore(workers[t].stack, event)
           sample == SampleOf(stack, event)
       IN  /\ results' = Append(results, sample)
           /\ workers' = [workers EXCEPT
                             ![t].stack = Append(stack, StackEntry(event)),
                             ![t].i = @ + 1]
           /\ emitted' = [emitted EXCEPT ![t] = Append(@, sample)]
           /\ pb' = LocationIds(pb, sample).pb
    /\ processedCount' = processedCount + 1
    /\ UNCHANGED <<traceEvents, opts, pc, threadEvents, mu, closed, wg, closer,
                   sampleMap, merged, nClose, builderVars, encodeVars, fcall>>

\* One round of ProcessThreadEvents' loop in the worker of thread t: the
\* stack is cut back, the sample is sent, the event is pushed, the counter
\* is raised.
WorkerStep(t) ==
    /\ workers[t].pc = "run"
    /\ workers[t].i <= Len(threadEvents[t])
    /\ CanSend
    /\ LET event  == threadEvents[t][workers[t].i]
           stack  == StackBefore(workers[t].stack, event)
           sample == SampleOf(stack, event)
       IN  /\ results' = Append(results, sample)
           /\ workers' = [workers EXCEPT
                             ![t].stack = Append(stack, StackEntry(event)),
                             ![t].i = @ + 1]
           /\ emitted' = [emitted EXCEPT ![t] = Append(@, sample)]
    /\ processedCount' = processedCount + 1
    /\ UNCHANGED <<traceEvents, opts, pc, threadEvents, pb, mu, closed, wg, closer,
                   sampleMap, merged, nClose, builderVars, encodeVars, fcall>>

\* A mutation: the worker returns without the deferred wg.Done().
WorkerReturn_NoDone(t) ==
    /\ workers[t].pc = "run"
    /\ workers[t].i > Len(threadEvents[t])
    /\ workers' = [workers EXCEPT ![t].pc = "done"]
    /\ UNCHANGED <<traceEvents, opts, pc, threadEvents, pb, mu, results, closed, wg,
                   closer, processedCount, sampleMap, emitted, merged, nClose,
                   builderVars, encodeVars, fcall>>

\* ProcessThreadEvents returns and the deferred wg.Done() runs.
WorkerReturn(t) ==
    /\ workers[t].pc = "run"
    /\ workers[t].i > Len(threadEvents[t])
    /\ workers' = [workers EXCEPT ![t].pc = "done"]
    /\ wg' = wg - 1
    /\ UNCHANGED <<traceEvents, opts, pc, threadEvents, pb, mu, results, closed,
                   closer, processedCount, sampleMap, emitted, merged, nClose,
                   builderVars, encodeVars, fcall>>

\* A mutation: the closer does not wait for the workers.
WaitReturns_AtOnce == TRUE

\* wg.Wait() returns when the counter is zero.
WaitReturns == wg = 0

\* The closer: wg.Wait(); close(results).
Close ==
    /\ closer = "wait"
    /\ WaitReturns
    /\ closed' = TRUE
    /\ closer' = "done"
    /\ nClose' = nClose + 1
    /\ UNCHANGED <<traceEvents, opts, pc, threadEvents, pb, mu, results, wg, workers,
                   processedCount, sampleMap, emitted, merged, builderVars, encodeVars, fcall>>

\* One round of `for sample := range results`: the oldest sample is taken
\* and either added to its sampleMap entry or given a new one.
Receive ==
    /\ pc = "aggregate"
    /\ results # <<>>
    /\ LET sample == Head(results)
           key    == KeyOf(sample.stack)
       IN  /\ results' = Tail(results)
           /\ IF Has(sampleMap, key)
              THEN /\ sampleMap' = [sampleMap EXCEPT
                                       ![key] = Accumulate(@, sample)]
                   /\ pb' = pb
              ELSE LET r == LocationIds(pb, sample)
                   IN  /\ sampleMap' = Put(sampleMap, key,
                                           NewSampleData(r.ret, sample))
                       /\ pb' = r.pb
           /\ merged' = Put(merged, key,
                            (IF Has(merged, key) THEN merged[key] ELSE {})
                                \cup {ChainOf(sample)})
    /\ UNCHANGED <<traceEvents, opts, pc, threadEvents, mu, closed, wg, workers,
                   closer, processedCount, emitted, nClose, builderVars, encodeVars, fcall>>

\* A mutation: the Samples are appended once the channel is empty, closed
\* or not.
Finish_NotWaitingForClose ==
    /\ pc = "aggregate"
    /\ results = <<>>
    /\ \E order \in Orderings(DOMAIN sampleMap) :
          pb' = [pb EXCEPT !.profile.Sample =
                    @ \o [i \in 1..Len(order) |->
                             ProfileSample(sampleMap[order[i]])]]
    /\ pc' = "done"
    /\ UNCHANGED <<traceEvents, opts, threadEvents, mu, results, closed, wg, workers,
                   closer, processedCount, sampleMap, emitted, merged, nClose,
                   builderVars, encodeVars, fcall>>

\* The range loop ends on the closed, drained channel; the sampleMap entries
\* are appended to the profile (a map is ranged over in any order) and the
\* profile is returned.
Finish ==
    /\ pc = "aggregate"
    /\ results = <<>>
    /\ closed
    /\ \E order \in Orderings(DOMAIN sampleMap) :
          pb' = [pb EXCEPT !.profile.Sample =
                    @ \o [i \in 1..Len(order) |->
                             ProfileSample(sampleMap[order[i]])]]
    /\ pc' = "done"
    /\ UNCHANGED <<traceEvents, opts, threadEvents, mu, results, closed, wg, workers,
                   closer, processedCount, sampleMap, emitted, merged, nClose,
                   builderVars, encodeVars, fcall>>

Next ==
    \/ Prepare
    \/ \E t \in DOMAIN workers : Spawn(t)
    \/ SpawnCloser
    \/ \E t \in DOMAIN workers : WorkerStep(t)
    \/ \E t \in DOMAIN workers : WorkerReturn(t)
    \/ Close
    \/ Receive
    \/ Finish

Spec == Init /\ [][Next]_vars

----------------------------------------------------------------------------
(* BuilderSpec: goroutines calling one Builder concurrently.               *)
(*                                                                         *)
(* Every operation takes the read lock, looks its key up and releases the  *)
(* read lock; on a miss it takes the write lock, looks the key up again    *)
(* and creates the entry.  A step of the model is one lock acquisition, or *)
(* one critical section together with the release that ends it.  RLock is  *)
(* granted whenever no writer holds the mutex: that a waiting writer holds *)
(* new readers back only removes interleavings.                            *)

Goroutines == {"g1", "g2"}

\* The strings AddString is called with.
StringArgs == {"", "a"}

\* (name, filename) arguments; the last two join to the same index key.
Pairs == {<<"a", "c">>, <<"a0b", "c">>, <<"a", "b0c">>}

\* The arguments of SetSampleTypes and SetPeriodType: ConvertTrace's second
\* sample type and its period type, which share a unit string.
SampleTypeArgs == << <<"time", "nanoseconds">> >>

PeriodTypeArgs == << <<"cpu", "nanoseconds">> >>

\* The calls a goroutine may make: the operation and its arguments.  For
\* SetSampleTypes and SetPeriodType, `types` lists the (type, unit) pairs.
Calls ==
    {[op |-> "AddString", name |-> s, filename |-> "", types |-> <<>>] :
        s \in StringArgs}
    \cup {[op |-> o, name |-> p[1], filename |-> p[2], types |-> <<>>] :
        o \in {"GetOrCreateFunction", "GetOrCreateLocation"}, p \in Pairs}
    \cup {[op |-> "SetSampleTypes", name |-> "", filename |-> "",
           types |-> SampleTypeArgs],
          [op |-> "SetPeriodType", name |-> "", filename |-> "",
           types |-> PeriodTypeArgs]}

Idle == [op |-> "none", pc |-> "idle", name |-> "", filename |-> "",
         types |-> <<>>, rets |-> <<>>, snap |-> <<>>]

\* The string the AddString call in progress inside SetSampleTypes or
\* SetPeriodType interns: handles are asked for in the order type, unit.
CurrentString(c) ==
    LET n == Len(c.rets)
    IN  c.types[1][n + 1]

\* The string of the AddString call goroutine p is in, if it is in one.
StringOf(c) == IF c.op = "AddString" THEN c.name ELSE CurrentString(c)

InAddString(c) == c.op \in {"AddString", "SetSampleTypes", "SetPeriodType"}

InitBuilder ==
    /\ pb = NewBuilder
    /\ mu = [readers |-> 0, writer |-> FALSE]
    /\ g = [p \in Goroutines |-> Idle]
    /\ calls = 0
    /\ returned = {}
    /\ traceEvents = <<>>
    /\ opts = ConvertOptions(1)
    /\ EncodeIdle
    /\ fcall = NoCall
    /\ pc = "builder"
    /\ threadEvents = EmptyMap
    /\ results = <<>>
    /\ closed = FALSE
    /\ wg = 0
    /\ workers = EmptyMap
    /\ closer = "none"
    /\ processedCount = 0
    /\ sampleMap = EmptyMap
    /\ emitted = EmptyMap
    /\ merged = EmptyMap
    /\ nClose = 0

\* Goroutine p starts call c.
Call(p, c) ==
    /\ g[p].pc = "idle"
    /\ calls < MaxCalls
    /\ calls' = calls + 1
    /\ g' = [g EXCEPT ![p] = [op |-> c.op, pc |-> "rlock", name |-> c.name,
                              filename |-> c.filename, types |-> c.types,
                              rets |-> <<>>,
                              snap |-> pb.profile.SampleType]]
    /\ UNCHANGED <<pb, mu, returned, convertVars, encodeVars, fcall>>

\* pb.mu.RLock()
RLock(p) ==
    /\ g[p].pc = "rlock"
    /\ ~mu.writer
    /\ mu' = [mu EXCEPT !.readers = @ + 1]
    /\ g' = [g EXCEPT ![p].pc = "read"]
    /\ UNCHANGED <<pb, calls, returned, convertVars, encodeVars, fcall>>

\* The look-up under the read lock: the index the operation reads and its key.
ReadHit(c) ==
    CASE InAddString(c) -> Has(pb.stringIndex, StringOf(c))
      [] c.op = "GetOrCreateFunction" ->
             Has(pb.functionIndex, IndexKey(c.name, c.filename))
      [] c.op = "GetOrCreateLocation" ->
             Has(pb.locationIndex, IndexKey(c.name, c.filename))

ReadValue(c) ==
    CASE InAddString(c) -> pb.stringIndex[StringOf(c)]
      [] c.op = "GetOrCreateFunction" ->
             pb.functionIndex[IndexKey(c.name, c.filename)]
      [] c.op = "GetOrCreateLocation" ->
             pb.locationIndex[IndexKey(c.name, c.filename)]

\* The critical section under the write lock.
WriteResult(c) ==
    CASE InAddString(c) -> AddStringWrite(pb, StringOf(c))
      [] c.op = "GetOrCreateFunction" ->
             GetOrCreateFunctionWrite(pb, c.name, c.filename)
      [] c.op = "GetOrCreateLocation" ->
             GetOrCreateLocationWrite(pb, c.name, c.filename)

\* The record of a returned AddString, GetOrCreateFunction or
\* GetOrCreateLocation call.
Returned(c, ret) ==
    IF InAddString(c)
    THEN [op |-> "AddString", name |-> StringOf(c), filename |-> "", ret |-> ret]
    ELSE [op |-> c.op, name |-> c.name, filename |-> c.filename, ret |-> ret]

\* Goroutine p after its look-up or creation returned `ret`: the call is
\* over, or (inside SetSampleTypes and SetPeriodType) the next handle is
\* asked for, or the ValueType is ready to be stored.
AfterReturn(c, ret) ==
    IF c.op \in {"AddString", "GetOrCreateFunction", "GetOrCreateLocation"}
    THEN Idle
    ELSE IF Len(c.rets) = 0
         THEN [c EXCEPT !.pc = "rlock", !.rets = <<ret>>]
         ELSE [c EXCEPT !.pc = "store", !.rets = Append(@, ret)]

\* A mutation: after a miss the read lock is kept while the write lock is
\* asked for.
Read_NoUnlockOnMiss(p) ==
    /\ g[p].pc = "read"
    /\ IF ReadHit(g[p])
       THEN /\ mu' = [mu EXCEPT !.readers = @ - 1]
            /\ returned' = returned \cup {Returned(g[p], ReadValue(g[p]))}
            /\ g' = [g EXCEPT ![p] = AfterReturn(@, ReadValue(g[p]))]
       ELSE /\ mu' = mu
            /\ returned' = returned
            /\ g' = [g EXCEPT ![p].pc = "lock"]
    /\ UNCHANGED <<pb, calls, convertVars, encodeVars, fcall>>

\* The look-up under the read lock, and pb.mu.RUnlock().
Read(p) ==
    /\ g[p].pc = "read"
    /\ mu' = [mu EXCEPT !.readers = @ - 1]
    /\ IF ReadHit(g[p])
       THEN /\ returned' = returned \cup {Returned(g[p], ReadValue(g[p]))}
            /\ g' = [g EXCEPT ![p] = AfterReturn(@, ReadValue(g[p]))]
       ELSE /\ returned' = returned
            /\ g' = [g EXCEPT ![p].pc = "lock"]
    /\ UNCHANGED <<pb, calls, convertVars, encodeVars, fcall>>

\* pb.mu.Lock() is granted when nobody holds the mutex.
LockFree == mu.readers = 0 /\ ~mu.writer

\* pb.mu.Lock()
Lock(p) ==
    /\ g[p].pc = "lock"
    /\ LockFree
    /\ mu' = [mu EXCEPT !.writer = TRUE]
    /\ g' = [g EXCEPT ![p].pc = "write"]
    /\ UNCHANGED <<pb, calls, returned, convertVars, encodeVars, fcall>>

\* The critical section under the write lock, and the deferred
\* pb.mu.Unlock().
Write(p) ==
    /\ g[p].pc = "write"
    /\ LET r == WriteResult(g[p])
       IN  /\ pb' = r.pb
           /\ returned' = returned \cup {Returned(g[p], r.ret)}
           /\ g' = [g EXCEPT ![p] = AfterReturn(@, r.ret)]
    /\ mu' = [mu EXCEPT !.writer = FALSE]
    /\ UNCHANGED <<calls, convertVars, encodeVars, fcall>>

\* SetSampleTypes appends the ValueType, SetPeriodType assigns it; neither
\* holds a lock.  The append reads pb.profile.SampleType at some point
\* between the start of the round and now (Go leaves open whether the
\* operand is read before or after the AddString calls): the round's first
\* value or the current one.
Store(p) ==
    /\ g[p].pc = "store"
    /\ LET c  == g[p]
           vt == ValueType(c.rets[1], c.rets[2])
       IN  /\ IF c.op = "SetSampleTypes"
              THEN \E base \in {c.snap, pb.profile.SampleType} :
                      pb' = [pb EXCEPT !.profile.SampleType = Append(base, vt)]
              ELSE pb' = [pb EXCEPT !.profile.PeriodType = <<vt>>]
           /\ g' = [g EXCEPT ![p] =
                       IF Len(c.types) > 1
                       THEN [c EXCEPT !.pc = "rlock", !.types = Tail(@),
                                      !.rets = <<>>,
                                      !.snap = pb'.profile.SampleType]
                       ELSE Idle]
    /\ UNCHANGED <<mu, calls, returned, convertVars, encodeVars, fcall>>

NextBuilder ==
    \/ \E p \in Goroutines : \E c \in Calls : Call(p, c)
    \/ \E p \in Goroutines : RLock(p)
    \/ \E p \in Goroutines : Read(p)
    \/ \E p \in Goroutines : Lock(p)
    \/ \E p \in Goroutines : Write(p)
    \/ \E p \in Goroutines : Store(p)

BuilderSpec == InitBuilder /\ [][NextBuilder]_vars

----------------------------------------------------------------------------
(* Properties of Spec.                                                     *)

\* The (name, category) frame of an event.
FrameOf(e) == <<e.Name, e.Cat>>

\* The interval of c lies within the interval of p.
Encloses(p, c) == p.Ts <= c.Ts /\ c.Ts < p.End /\ c.End <= p.End

\* The indices of thread t's events whose samples have been sent.
Sent(t) == 1..Len(emitted[t])

\* The sample of thread t's k-th event is the sample of its j-th event
\* with the k-th event's frame appended.
ExtendsStack(t, j, k) ==
    ChainOf(emitted[t][k]) =
        Append(ChainOf(emitted[t][j]), FrameOf(threadEvents[t][k]))

\* C1 as claimed: for kept events P and C of one thread with C's interval
\* within P's (and not the same interval) and P the closest event enclosing
\* C (every other event of the thread that encloses C encloses P too), the
\* stack sent for C is the stack sent for P with C appended as the leaf.
C1_Original ==
    \A t \in DOMAIN emitted : \A j, k \in Sent(t) :
        LET ev == threadEvents[t]
        IN  (/\ j # k
             /\ Encloses(ev[j], ev[k])
             /\ ev[j].Ts # ev[k].Ts \/ ev[j].End # ev[k].End
             /\ \A i \in DOMAIN ev \ {j, k} :
                    Encloses(ev[i], ev[k]) => Encloses(ev[i], ev[j]))
            => ExtendsStack(t, j, k)

\* C1 as amended: for kept events P and C of one thread where P is
\* processed before C (it precedes C in the thread's sorted order), C's
\* interval lies within P's and P is the last event processed before C that
\* encloses C, the stack sent for C is the stack sent for P with C appended
\* as the leaf.
C1_NestedStack ==
    \A t \in DOMAIN emitted : \A j, k \in Sent(t) :
        LET ev == threadEvents[t]
        IN  (/\ j < k
             /\ Encloses(ev[j], ev[k])
             /\ \A i \in (j + 1)..(k - 1) : ~Encloses(ev[i], ev[k]))
            => ExtendsStack(t, j, k)

\* C1's case: a child sent below a parent that itself has a parent.
C1_Witness ==
    \E t \in DOMAIN emitted : \E j, k \in Sent(t) :
        /\ j < k
        /\ Encloses(threadEvents[t][j], threadEvents[t][k])
        /\ \A i \in (j + 1)..(k - 1) :
               ~Encloses(threadEvents[t][i], threadEvents[t][k])
        /\ Len(emitted[t][j].names) = 2
        /\ Len(emitted[t][k].names) = 3

RECURSIVE SumDuration(_)
\* The sum of Value[1] over a list of Samples.
SumDuration(samples) ==
    IF samples = <<>> THEN 0
    ELSE Head(samples).Value[2] + SumDuration(Tail(samples))

RECURSIVE SumKeptNs(_)
\* The sum of duration_us * 1000, as integer nanoseconds, over the events
\* with phase "X" and a positive duration.
SumKeptNs(events) ==
    IF events = <<>> THEN 0
    ELSE (IF Head(events).Ph = "X" /\ Head(events).Dur > 0
          THEN (Head(events).Dur * 1000) \div TicksPerUs ELSE 0)
         + SumKeptNs(Tail(events))

\* C2: the durations of the returned profile's samples add up to the
\* durations, in whole nanoseconds, of the input's events with phase "X"
\* and a positive duration.
C2_DurationSum ==
    pc = "done" => SumDuration(pb.profile.Sample) = SumKeptNs(traceEvents)

\* C2's case: a returned profile with a sample merged from two events, from
\* an input that also holds a skipped event.
C2_Witness ==
    /\ pc = "done"
    /\ \E i \in DOMAIN pb.profile.Sample : pb.profile.Sample[i].Value[1] = 2
    /\ \E i \in DOMAIN traceEvents : ~Kept(traceEvents[i])

\* C3 as claimed: two sent samples are merged into one sampleMap entry if
\* and only if their chains of (name, category) frames are the same: every
\* entry holds one chain, and no chain is spread over two entries.
C3_MergeIffSameChain ==
    /\ \A key \in DOMAIN merged : Cardinality(merged[key]) = 1
    /\ \A k1, k2 \in DOMAIN merged :
           k1 # k2 => merged[k1] \cap merged[k2] = {}

\* The Functions whose name and file name resolve to the pair (name, cat).
FunctionsOf(name, cat) ==
    {i \in DOMAIN pb.profile.Function :
        /\ pb.profile.StringTable[pb.profile.Function[i].Name + 1] = name
        /\ pb.profile.StringTable[pb.profile.Function[i].Filename + 1] = cat}

\* The Locations with a Line in one of those Functions.
LocationsOf(name, cat) ==
    {i \in DOMAIN pb.profile.Location :
        \E l \in DOMAIN pb.profile.Location[i].Line :
            \E f \in FunctionsOf(name, cat) :
                pb.profile.Location[i].Line[l].FunctionId =
                    pb.profile.Function[f].Id}

\* C4 as claimed: in the returned profile every (name, category) pair of a
\* kept event has exactly one Function and exactly one Location.
C4_OnePerPair ==
    pc = "done" =>
        \A i \in DOMAIN traceEvents :
            Kept(traceEvents[i]) =>
                /\ Cardinality(FunctionsOf(traceEvents[i].Name,
                                           traceEvents[i].Cat)) = 1
                /\ Cardinality(LocationsOf(traceEvents[i].Name,
                                           traceEvents[i].Cat)) = 1

\* The ids of a list of Functions or Locations.
IdsOf(list) == {list[i].Id : i \in DOMAIN list}

\* The string a handle of the String Table resolves to.
Resolve(h) == pb.profile.StringTable[h + 1]

\* h is a handle of the String Table.
ValidHandle(h) == h \in 0..(Len(pb.profile.StringTable) - 1)

\* C9: in the returned profile every location id of a Sample is the Id of
\* a Location, every Line's FunctionId is the Id of a Function, and every
\* string handle of a Function or ValueType indexes the String Table.
C9_ReferencesResolve ==
    pc = "done" =>
        LET p == pb.profile
        IN  /\ \A i \in DOMAIN p.Sample : \A l \in DOMAIN p.Sample[i].LocationId :
                   p.Sample[i].LocationId[l] \in IdsOf(p.Location)
            /\ \A i \in DOMAIN p.Location : \A l \in DOMAIN p.Location[i].Line :
                   p.Location[i].Line[l].FunctionId \in IdsOf(p.Function)
            /\ \A i \in DOMAIN p.Function :
                   /\ ValidHandle(p.Function[i].Name)
                   /\ ValidHandle(p.Function[i].SystemName)
                   /\ ValidHandle(p.Function[i].Filename)
            /\ \A i \in DOMAIN p.SampleType :
                   ValidHandle(p.SampleType[i].Type) /\ ValidHandle(p.SampleType[i].Unit)
            /\ \A i \in DOMAIN p.PeriodType :
                   ValidHandle(p.PeriodType[i].Type) /\ ValidHandle(p.PeriodType[i].Unit)

\* C9's case: a returned profile with a Sample of three locations.
C9_Witness ==
    /\ pc = "done"
    /\ \E i \in DOMAIN pb.profile.Sample : Len(pb.profile.Sample[i].LocationId) = 3
    /\ Len(pb.profile.Function) >= 2

\* The number of samples the workers have sent.
SentCount ==
    LET RECURSIVE Total(_)
        Total(S) == IF S = {} THEN 0
                    ELSE LET t == CHOOSE x \in S : TRUE
                         IN  Len(emitted[t]) + Total(S \ {t})
    IN  Total(DOMAIN emitted)

\* The number of samples the aggregation loop has taken.
ReceivedCount ==
    LET RECURSIVE Total(_)
        Total(S) == IF S = {} THEN 0
                    ELSE LET k == CHOOSE x \in S : TRUE
                         IN  sampleMap[k].count + Total(S \ {k})
    IN  Total(DOMAIN sampleMap)

\* C10: the results channel is closed at most once, and only when every
\* worker has returned (so that none sends after the close); the
\* aggregation loop ends only after the close, with the channel empty and
\* every sample that was sent received.
C10_CloseAfterWorkers ==
    /\ nClose <= 1
    /\ closed <=> nClose = 1
    /\ closed => \A t \in DOMAIN workers : workers[t].pc = "done"
    /\ closed => SentCount = processedCount
    /\ pc = "done" => /\ closed
                      /\ results = <<>>
                      /\ ReceivedCount = SentCount

\* C10's case: the loop has ended after two workers sent three samples.
C10_Witness ==
    /\ pc = "done"
    /\ closed
    /\ Cardinality(DOMAIN workers) = 2
    /\ ReceivedCount = 3

\* The (name, category) pair a Location of profile p stands for: the name
\* and the file name of the Function of its Line.
FrameAt(p, locId) ==
    LET fn == p.Function[p.Location[locId].Line[1].FunctionId]
    IN  <<p.StringTable[fn.Name + 1], p.StringTable[fn.Filename + 1]>>

\* The stack signature of a Sample of profile p: its frames, root first.
SignatureOf(p, s) ==
    LET n == Len(s.LocationId)
    IN  [i \in 1..n |-> FrameAt(p, s.LocationId[n + 1 - i])]

\* The multiset of (stack signature, count, total duration) of profile p.
AggregateOf(p) ==
    LET entry(i) == <<SignatureOf(p, p.Sample[i]),
                      p.Sample[i].Value[1], p.Sample[i].Value[2]>>
        E == {entry(i) : i \in DOMAIN p.Sample}
    IN  [e \in E |-> Cardinality({i \in DOMAIN p.Sample : entry(i) = e})]

\* The positions (thread key, index) of the samples sent.
SentPositions ==
    UNION {{<<t, k>> : k \in 1..Len(emitted[t])} : t \in DOMAIN emitted}

\* The orders in which the samples sent may arrive at the aggregation loop:
\* each worker's samples in the order it sent them, the workers' samples
\* interleaved in any way.
RECURSIVE ArrivalsAfter(_)
\* The orders in which the samples not yet taken may arrive, taken[t] being
\* the number of thread t's samples that have arrived.
ArrivalsAfter(taken) ==
    LET sending == {t \in DOMAIN emitted : taken[t] < Len(emitted[t])}
    IN  IF sending = {} THEN {<<>>}
        ELSE UNION {{<<<<t, taken[t] + 1>>>> \o o :
                        o \in ArrivalsAfter([taken EXCEPT ![t] = @ + 1])} :
                    t \in sending}

ArrivalOrders == ArrivalsAfter([t \in DOMAIN emitted |-> 0])

\* The samples sent, in arrival order o.
SamplesIn(o) == [i \in 1..Len(o) |-> emitted[o[i][1]][o[i][2]]]

\* C12 as claimed: the multiset of (stack signature, count, total
\* duration) of the returned profile is the one ConvertTrace returns for
\* every other arrival order of the same samples, that is, for every other
\* scheduling of the workers.
C12_SameAggregate ==
    pc = "done" =>
        \A o \in ArrivalOrders :
            AggregateOf(ProfileAfter(SamplesIn(o))) = AggregateOf(pb.profile)

----------------------------------------------------------------------------
(* OptionSpec: ConvertTrace called with NumWorkers = 1, 2, ...             *)
(*                                                                         *)
(* ConvertTrace never reads opts.NumWorkers: it starts one goroutine for   *)
(* each thread key whatever the option says, so the steps are those of     *)
(* Spec.                                                                   *)

\* The inputs of OptionSpec: two threads, with two frames whose index keys
\* coincide on different threads, and a skipped event.
OptionPool ==
    {Event("X", "a0b", "c", IntTid(1), 1, 2),
     Event("X", "a", "b0c", IntTid(2), 1, 2),
     Event("X", "a", "c", IntTid(2), 0, 4),
     Event("B", "a", "c", IntTid(1), 0, 4)}

OptionInit ==
    ConvertInit(UNION {[1..n -> OptionPool] : n \in 0..MaxEvents},
                {ConvertOptions(n) : n \in 1..MaxWorkers})

OptionSpec == OptionInit /\ [][Next]_vars

RECURSIVE OneAtATime(_)
\* The samples in the order they arrive when a single worker is at work at
\* any time: the threads in ascending key order, each thread's samples in
\* the order they are sent.
OneAtATime(T) ==
    IF T = {} THEN <<>>
    ELSE LET t == CHOOSE x \in T : \A y \in T : x <= y
         IN  emitted[t] \o OneAtATime(T \ {t})

\* C13 as claimed: whatever opts.NumWorkers is, the returned profile holds
\* the stack signatures, counts and total durations of the run in which a
\* single worker is at work at any time.
C13_SameForAnyWorkers ==
    pc = "done" =>
        AggregateOf(pb.profile) =
            AggregateOf(ProfileAfter(OneAtATime(DOMAIN emitted)))

----------------------------------------------------------------------------
(* Properties of Spec: the order of tied events, the Samples' layout, the  *)
(* aggregation loop's effect, skipped events, the fixed values.            *)

RECURSIVE InsertByTs(_, _)
\* e put into a list in ascending Ts, behind every event that starts no
\* later than e.
InsertByTs(sorted, e) ==
    IF sorted = <<>> THEN <<e>>
    ELSE IF e.Ts < Head(sorted).Ts THEN <<e>> \o sorted
         ELSE <<Head(sorted)>> \o InsertByTs(Tail(sorted), e)

RECURSIVE StableByTs(_)
\* The list in ascending Ts with events of equal Ts in their order in the
\* list: what a stable sort by Ts leaves.
StableByTs(events) ==
    IF events = <<>> THEN <<>>
    ELSE InsertByTs(StableByTs(SubSeq(events, 1, Len(events) - 1)),
                    events[Len(events)])

\* C14 as claimed: each thread's events are fed to the stack reconstruction
\* in ascending start time with events of equal start time in their input
\* order.
C14_StableTies ==
    pc # "start" =>
        \A t \in DOMAIN threadEvents :
            threadEvents[t] = StableByTs(GroupOf(traceEvents, t))

\* The Location id the Builder holds for the frame (name, category).
LocationOf(frame) == pb.locationIndex[IndexKey(frame[1], frame[2])]

\* The Locations of the chain's frames, the last frame (the leaf) first and
\* the first frame (the outermost ancestor) last; 0 stands for a frame the
\* Builder holds no Location for.
LeafFirst(chain) ==
    LET n == Len(chain)
        id(frame) == IF Has(pb.locationIndex, IndexKey(frame[1], frame[2]))
                     THEN LocationOf(frame) ELSE 0
    IN  [i \in 1..n |-> id(chain[n + 1 - i])]

\* For each sample sent, the Locations of its frames, leaf first.
SentLeafFirst ==
    [q \in SentPositions |-> LeafFirst(ChainOf(emitted[q[1]][q[2]]))]

\* C15: in the returned profile, the stack sent for every kept event is
\* held by a Sample whose LocationId lists the stack's Locations leaf
\* first: entry 0 is the Location of the event itself, the last entry that
\* of the outermost ancestor, one entry per frame; and every Sample is
\* laid out so for a stack that was sent.
C15_LeafFirst ==
    pc = "done" =>
        LET ids == SentLeafFirst
        IN  /\ \A q \in SentPositions :
                   /\ \A j \in DOMAIN ids[q] : ids[q][j] # 0
                   /\ \E i \in DOMAIN pb.profile.Sample :
                          /\ pb.profile.Sample[i].LocationId = ids[q]
                          /\ pb.profile.Sample[i].LocationId[1] =
                                 LocationOf(FrameOf(threadEvents[q[1]][q[2]]))
            /\ \A i \in DOMAIN pb.profile.Sample :
                   \E q \in SentPositions :
                       pb.profile.Sample[i].LocationId = ids[q]

\* C15's case: a returned Sample of two different Locations, the leaf's
\* created after the ancestor's, beside the Sample of the ancestor alone.
C15_Witness ==
    /\ pc = "done"
    /\ \E i, j \in DOMAIN pb.profile.Sample :
           /\ Len(pb.profile.Sample[i].LocationId) = 2
           /\ pb.profile.Sample[i].LocationId[1] >
                  pb.profile.Sample[i].LocationId[2]
           /\ pb.profile.Sample[j].LocationId =
                  <<pb.profile.Sample[i].LocationId[2]>>

\* The aggregation loop is about to take a sample whose key sampleMap holds.
RepeatKey ==
    /\ pc = "aggregate"
    /\ results # <<>>
    /\ Has(sampleMap, KeyOf(Head(results).stack))

\* The step takes the oldest sample off the channel.
Takes == results # <<>> /\ results' = Tail(results)

\* C16: a step of the aggregation loop on a sample whose key is in
\* sampleMap adds 1 to that entry's count and the sample's duration to its
\* total, and leaves alone the entry's location ids, every other entry, the
\* Location list, the Function list, the String Table and the Builder's
\* indexes.
C16_RepeatOnlyAdds ==
    [][(RepeatKey /\ Takes) =>
          LET sample == Head(results)
              key    == KeyOf(sample.stack)
          IN  /\ DOMAIN sampleMap' = DOMAIN sampleMap
              /\ sampleMap'[key].count = sampleMap[key].count + 1
              /\ sampleMap'[key].timeNs = sampleMap[key].timeNs + sample.timeNs
              /\ sampleMap'[key].locationIds = sampleMap[key].locationIds
              /\ \A k \in DOMAIN sampleMap \ {key} : sampleMap'[k] = sampleMap[k]
              /\ pb'.profile.Location = pb.profile.Location
              /\ pb'.profile.Function = pb.profile.Function
              /\ pb'.profile.StringTable = pb.profile.StringTable
              /\ pb' = pb]_vars

\* C16's case: an entry that a repeated key has been added to, after a
\* second entry was made.
C16_Witness ==
    /\ pc = "aggregate"
    /\ Cardinality(DOMAIN sampleMap) = 2
    /\ \E k \in DOMAIN sampleMap :
           sampleMap[k].count = 2 /\ Len(sampleMap[k].locationIds) = 1
    /\ Len(pb.profile.Location) = 2

\* The event is one the claim calls skipped: its phase is not "X" or its
\* duration is not positive.
Skipped(e) == e.Ph # "X" \/ e.Dur <= 0

\* The event list with the skipped events removed.
WithoutSkipped(events) == SelectSeq(events, LAMBDA e : ~Skipped(e))

\* The multiset of the elements of a list.
BagOf(list) ==
    [x \in Range(list) |-> Cardinality({i \in DOMAIN list : list[i] = x})]

\* The events are in ascending start time.
Ascending(events) ==
    \A i, j \in DOMAIN events : i < j => events[i].Ts <= events[j].Ts

\* The strings every profile of ConvertTrace holds.
FixedStrings == {"", "samples", "count", "time", "nanoseconds", "cpu"}

\* The names and categories of the events that are not skipped.
StringsOf(events) ==
    UNION {{events[i].Name, events[i].Cat} :
              i \in {j \in DOMAIN events : ~Skipped(events[j])}}

\* C17: skipped events contribute nothing.  The String Table never holds
\* but the fixed strings and strings of events that are not skipped.  When
\* ConvertTrace returns for an input that holds a skipped event, the
\* threads, and the events each worker was given,
\* are those of the input with the skipped events removed; the samples sent
\* are those ProcessThreadEvents computes from them; the returned profile
\* is one that
\* ConvertTrace returns for the input with the skipped events removed (the
\* same Locations, Functions and String Table, the same Samples up to their
\* order); and an input of skipped events only yields no Sample, no
\* Location and no Function.
C17_SkippedContributeNothing ==
    LET clean == WithoutSkipped(traceEvents)
    IN  /\ Range(pb.profile.StringTable) \subseteq
               FixedStrings \cup StringsOf(traceEvents)
        /\ (pc = "done" /\ clean # traceEvents) =>
               /\ DOMAIN threadEvents = ThreadKeys(clean)
               /\ \A t \in DOMAIN threadEvents :
                      /\ BagOf(threadEvents[t]) = BagOf(GroupOf(clean, t))
                      /\ Ascending(threadEvents[t])
                      /\ emitted[t] = ThreadSamples(threadEvents[t], <<>>)
               /\ \E o \in ArrivalOrders :
                      LET q == ProfileAfter(SamplesIn(o))
                      IN  /\ q.Location = pb.profile.Location
                          /\ q.Function = pb.profile.Function
                          /\ q.StringTable = pb.profile.StringTable
                          /\ BagOf(q.Sample) = BagOf(pb.profile.Sample)
               /\ clean = <<>> =>
                      /\ pb.profile.Sample = <<>>
                      /\ pb.profile.Location = <<>>
                      /\ pb.profile.Function = <<>>

\* C17's case: a profile returned for an input that holds a kept event
\* and, before and after it, skipped events with a name no kept event has.
C17_Witness ==
    /\ pc = "done"
    /\ Len(traceEvents) = 3
    /\ Skipped(traceEvents[1]) /\ traceEvents[1].Name = "a0b"
    /\ ~Skipped(traceEvents[2]) /\ traceEvents[2].Name = "a"
    /\ Skipped(traceEvents[3]) /\ traceEvents[3].Ph = "B"
    /\ Len(pb.profile.Sample) = 1

\* How often the string occurs in the String Table.
Occurrences(str) ==
    Cardinality({i \in DOMAIN pb.profile.StringTable :
                    pb.profile.StringTable[i] = str})

\* C18: for the empty event list ConvertTrace returns a profile with no
\* Sample, no Location and no Function, whose String Table holds the empty
\* string at index 0 and each of "samples", "count", "time", "nanoseconds"
\* and "cpu" exactly once.
C18_EmptyInput ==
    (pc = "done" /\ traceEvents = <<>>) =>
        /\ pb.profile.Sample = <<>>
        /\ pb.profile.Location = <<>>
        /\ pb.profile.Function = <<>>
        /\ pb.profile.StringTable[1] = ""
        /\ \A str \in {"samples", "count", "time", "nanoseconds", "cpu"} :
               Occurrences(str) = 1

\* C18's case: ConvertTrace has returned for the empty event list, having
\* started no worker.
C18_Witness ==
    /\ pc = "done"
    /\ traceEvents = <<>>
    /\ DOMAIN workers = {}
    /\ closed
    /\ Len(pb.profile.StringTable) = 6

\* The (type, unit) strings a ValueType's handles resolve to.
Strings(vt) == <<Resolve(vt.Type), Resolve(vt.Unit)>>

\* For each sample sent, its stack key.
SentKeys == [q \in SentPositions |-> KeyOf(emitted[q[1]][q[2]].stack)]

\* The sum of the durations of the samples at a set of positions.
SumSent(Q) ==
    LET RECURSIVE Total(_)
        Total(S) == IF S = {} THEN 0
                    ELSE LET q == CHOOSE x \in S : TRUE
                         IN  emitted[q[1]][q[2]].timeNs + Total(S \ {q})
    IN  Total(Q)

\* C19: the returned profile has the two sample types ("samples", "count")
\* and ("time", "nanoseconds"), in this order, the period type ("cpu",
\* "nanoseconds") and the period 1000000; every Sample has two values, the
\* number (at least 1) of the samples sent with its stack key and the sum
\* of their durations.
C19_FixedValues ==
    pc = "done" =>
        /\ Len(pb.profile.SampleType) = 2
        /\ Strings(pb.profile.SampleType[1]) = <<"samples", "count">>
        /\ Strings(pb.profile.SampleType[2]) = <<"time", "nanoseconds">>
        /\ Len(pb.profile.PeriodType) = 1
        /\ Strings(pb.profile.PeriodType[1]) = <<"cpu", "nanoseconds">>
        /\ pb.profile.Period = 1000000
        /\ LET ids  == SentLeafFirst
               keys == SentKeys
               like(q) == {r \in SentPositions : keys[r] = keys[q]}
           IN  \A i \in DOMAIN pb.profile.Sample :
                   LET v == pb.profile.Sample[i].Value
                   IN  /\ Len(v) = 2
                       /\ v[1] >= 1
                       /\ \E q \in SentPositions :
                              /\ pb.profile.Sample[i].LocationId = ids[q]
                              /\ v[1] = Cardinality(like(q))
                              /\ v[2] = SumSent(like(q))

\* C19's case: a returned profile with a Sample of three occurrences whose
\* durations differ from their number.
C19_Witness ==
    /\ pc = "done"
    /\ \E i \in DOMAIN pb.profile.Sample :
           /\ pb.profile.Sample[i].Value[1] = 3
           /\ pb.profile.Sample[i].Value[2] > 3

----------------------------------------------------------------------------
(* FairSpec: ConvertTrace under the Go scheduler.                          *)
(*                                                                         *)
(* Every goroutine that can take a step is given one in the end: the main  *)
(* goroutine, each worker of the loop at main.go 531-537 and the closer    *)
(* of 540-543.  A worker at `results <- sample` can step when the buffer   *)
(* has room; the closer can step when the WaitGroup's counter is zero; the *)
(* main goroutine at `range results` can step when a sample is buffered or *)
(* the channel is closed.                                                  *)

\* The thread keys of the inputs.
ThreadIds == {getTid(e.Tid) : e \in EventPool}

\* The steps of the main goroutine.
MainStep ==
    \/ Prepare
    \/ \E t \in DOMAIN workers : Spawn(t)
    \/ SpawnCloser
    \/ Receive
    \/ Finish

\* The steps of the worker goroutine of thread key t.
WorkerOf(t) ==
    /\ t \in DOMAIN workers
    /\ WorkerStep(t) \/ WorkerReturn(t)

Fairness ==
    /\ WF_vars(MainStep)
    /\ \A t \in ThreadIds : WF_vars(WorkerOf(t))
    /\ WF_vars(Close)

\* The inputs of FairSpec: what matters to termination is how many samples
\* each worker sends, how many workers there are, and that an event may be
\* skipped.
FairPool ==
    {Event("X", "a", "c", IntTid(1), 0, 4),
     Event("X", "a", "c", IntTid(2), 0, 4),
     Event("B", "a", "c", IntTid(1), 0, 4)}

FairInit ==
    ConvertInit(UNION {[1..n -> FairPool] : n \in 0..MaxEvents},
                {ConvertOptions(1)})

FairSpec == FairInit /\ [][Next]_vars /\ Fairness

\* A worker is held at `results <- sample`: the buffer is full.
BlockedOnSend ==
    \E t \in DOMAIN workers :
        /\ workers[t].pc = "run"
        /\ workers[t].i <= Len(threadEvents[t])
        /\ ~CanSend

\* The input holds no event that ConvertTrace keeps: no worker is started.
NoWorkers == pc # "start" /\ DOMAIN workers = {}

\* C11: under fair scheduling ConvertTrace returns for every input: also
\* from a state where no worker was started, and from a state where a
\* worker is held at its send because the channel's buffer is full; and
\* when it has returned, every worker and the closer have ended.
C11_Terminates ==
    /\ <>(pc = "done")
    /\ [](NoWorkers \/ BlockedOnSend => <>(pc = "done"))
    /\ [](pc = "done" => /\ closer = "done"
                         /\ \A t \in DOMAIN workers : workers[t].pc = "done")

\* C11's case: of two workers one has returned and the other is held at
\* its send, the buffer being full, with the closer waiting.
C11_Witness ==
    /\ closer = "wait"
    /\ BlockedOnSend
    /\ Cardinality(DOMAIN workers) = 2
    /\ \E t \in DOMAIN workers : workers[t].pc = "done"


----------------------------------------------------------------------------
(* Properties of BuilderSpec.                                              *)

\* C5: the String Table holds no string twice, its slot 0 is the empty
\* string, and stringIndex maps each string of the table, and nothing else,
\* to the slot that holds it.
C5_StringTableUnique ==
    LET st == pb.profile.StringTable
    IN  /\ st[1] = ""
        /\ \A i, j \in DOMAIN st : st[i] = st[j] => i = j
        /\ DOMAIN pb.stringIndex = Range(st)
        /\ \A s \in DOMAIN pb.stringIndex :
               /\ pb.stringIndex[s] \in 0..(Len(st) - 1)
               /\ st[pb.stringIndex[s] + 1] = s

\* C5's case: strings interned by AddString and by a Function's creation,
\* one of them asked for twice.
C5_Witness ==
    /\ Len(pb.profile.StringTable) >= 3
    /\ Len(pb.profile.Function) >= 1
    /\ \E r \in returned : r.op = "AddString" /\ r.name = "a"

\* C6: all AddString calls with one string return one handle, whatever the
\* interleaving, and that handle's slot holds the string.
C6_AddStringSameHandle ==
    /\ \A r1, r2 \in returned :
           (r1.op = "AddString" /\ r2.op = "AddString" /\ r1.name = r2.name)
               => r1.ret = r2.ret
    /\ \A r \in returned :
           r.op = "AddString" =>
               /\ r.ret \in 0..(Len(pb.profile.StringTable) - 1)
               /\ Resolve(r.ret) = r.name

\* C6's case: two callers missed the same string under the read lock; one
\* has interned it and returned, the other now holds the write lock.
C6_Witness ==
    \E p \in Goroutines :
        /\ g[p].op = "AddString"
        /\ g[p].pc = "write"
        /\ g[p].name = "a"
        /\ \E r \in returned : r.op = "AddString" /\ r.name = "a" /\ r.ret = 1

\* Every call for one (name, filename) has returned one id, and the pair
\* has at most one Function and at most one Location.
C7_OneIdPerKey ==
    /\ \A r1, r2 \in returned :
           (/\ r1.op \in {"GetOrCreateFunction", "GetOrCreateLocation"}
            /\ r1.op = r2.op /\ r1.name = r2.name /\ r1.filename = r2.filename)
               => r1.ret = r2.ret
    /\ \A r \in returned :
           r.op \in {"GetOrCreateFunction", "GetOrCreateLocation"} =>
               /\ Cardinality(FunctionsOf(r.name, r.filename)) <= 1
               /\ Cardinality(LocationsOf(r.name, r.filename)) <= 1

\* Goroutine p's GetOrCreateLocation call creates a Location in this step.
CreatesLocation(p) ==
    /\ g[p].op = "GetOrCreateLocation"
    /\ g[p].pc = "write"
    /\ g'[p].pc = "idle"
    /\ Len(pb'.profile.Location) = Len(pb.profile.Location) + 1

\* The Location just created has one Line, in a Function whose name and
\* system name resolve to name and whose file name resolves to filename.
CreatedFor(name, filename) ==
    LET p2  == pb'.profile
        loc == p2.Location[Len(p2.Location)]
    IN  /\ Len(loc.Line) = 1
        /\ loc.Line[1].FunctionId \in DOMAIN p2.Function
        /\ LET fn == p2.Function[loc.Line[1].FunctionId]
           IN  /\ fn.Id = loc.Line[1].FunctionId
               /\ p2.StringTable[fn.Name + 1] = name
               /\ p2.StringTable[fn.SystemName + 1] = name
               /\ p2.StringTable[fn.Filename + 1] = filename

\* C7 as claimed: every call for one (name, filename) returns one id, the
\* pair has at most one Function and at most one Location, and a Location,
\* when it is created, has exactly one Line, in a Function whose name and
\* system name resolve to the call's name and whose file name resolves to
\* its filename.
C7_OnePerKey ==
    /\ [](C7_OneIdPerKey)
    /\ [][\A p \in Goroutines :
             CreatesLocation(p) => CreatedFor(g[p].name, g[p].filename)]_vars

\* The i-th entry of the Function list and of the Location list has id i.
DenseIds ==
    /\ \A i \in DOMAIN pb.profile.Function : pb.profile.Function[i].Id = i
    /\ \A i \in DOMAIN pb.profile.Location : pb.profile.Location[i].Id = i

\* A step only appends to the two lists: no entry goes away or changes its id.
IdsKept ==
    /\ Len(pb'.profile.Function) >= Len(pb.profile.Function)
    /\ \A i \in DOMAIN pb.profile.Function :
           pb'.profile.Function[i].Id = pb.profile.Function[i].Id
    /\ Len(pb'.profile.Location) >= Len(pb.profile.Location)
    /\ \A i \in DOMAIN pb.profile.Location :
           pb'.profile.Location[i].Id = pb.profile.Location[i].Id

\* C8: in every state the Function list and the Location list carry the
\* ids 1, 2, ..., n in creation order, and no step removes an entry or
\* changes an id.
C8_DenseIds == [](DenseIds) /\ [][IdsKept]_vars

\* C8's case: two Functions and two Locations have been created.
C8_Witness ==
    /\ Len(pb.profile.Function) >= 2
    /\ Len(pb.profile.Location) >= 2
    /\ calls = 3

----------------------------------------------------------------------------
(* EncodeSpec: calls of Profile.Encode on one Profile.                     *)
(*                                                                         *)
(* A step is one of the nine parts of Encode, in the order of the code:    *)
(* the five loops over the lists, then the four optional fields; or the    *)
(* return; or the next call of Encode on the same Profile.  `calls` counts *)
(* the calls of Encode, `returned` holds what each returned.               *)

Sample(locationId, value) == [LocationId |-> locationId, Value |-> value]

Line(functionId, line) == [FunctionId |-> functionId, Line |-> line]

Location(id, line) == [Id |-> id, Line |-> line]

Function(id, name, systemName, filename) ==
    [Id |-> id, Name |-> name, SystemName |-> systemName,
     Filename |-> filename]

\* The lists of the profiles encoded are the first 0..MaxRepeat elements of
\* these: values of one and of several varint bytes, zero values, empty and
\* non-empty inner lists.
SampleTypePool ==
    <<ValueType(1, 2), ValueType(3, 4), ValueType(0, 300), ValueType(5, 4)>>

SamplePool ==
    <<Sample(<<2, 1>>, <<1, 1500>>), Sample(<<>>, <<>>),
      Sample(<<1>>, <<2, 300>>), Sample(<<200>>, <<>>)>>

LocationPool ==
    <<Location(1, <<Line(1, 0)>>), Location(2, <<Line(2, 7), Line(1, 0)>>),
      Location(3, <<>>), Location(200, <<Line(200, 0)>>)>>

FunctionPool ==
    <<Function(1, 1, 1, 2), Function(2, 3, 3, 0), Function(200, 1, 1, 2),
      Function(3, 0, 0, 0)>>

StringPool == <<"", "a", "cpu", "c">>

Prefixes(pool) == {SubSeq(pool, 1, n) : n \in 0..MaxRepeat}

\* The four optional fields of a profile: none is set, one is, or all are,
\* so that every two of them occur in every combination.
OptionalFields ==
    {[TimeNanos |-> t, DurationNanos |-> d, PeriodType |-> pt, Period |-> p] :
        <<t, d, pt, p>> \in
            {<<0, 0, <<>>, 0>>,
             <<5, 0, <<>>, 0>>,
             <<0, 300, <<>>, 0>>,
             <<0, 0, <<ValueType(5, 4)>>, 0>>,
             <<0, 0, <<>>, PeriodValue>>,
             <<5, 300, <<ValueType(5, 4)>>, PeriodValue>>}}

\* The profiles Encode is called on.
Profiles ==
    {[SampleType    |-> st,
      Sample        |-> sa,
      Location      |-> lo,
      Function      |-> fn,
      StringTable   |-> str,
      TimeNanos     |-> o.TimeNanos,
      DurationNanos |-> o.DurationNanos,
      PeriodType    |-> o.PeriodType,
      Period        |-> o.Period] :
        st \in Prefixes(SampleTypePool), sa \in Prefixes(SamplePool),
        lo \in Prefixes(LocationPool), fn \in Prefixes(FunctionPool),
        str \in Prefixes(StringPool), o \in OptionalFields}

EncodeInit ==
    /\ prof \in Profiles
    /\ buf = <<>>
    /\ encPc = "sampleType"
    /\ fcall = NoCall
    /\ pb = NewBuilder
    /\ mu = [readers |-> 0, writer |-> FALSE]
    /\ g = EmptyMap
    /\ calls = 1
    /\ returned = {}
    /\ traceEvents = <<>>
    /\ opts = ConvertOptions(1)
    /\ pc = "encode"
    /\ threadEvents = EmptyMap
    /\ results = <<>>
    /\ closed = FALSE
    /\ wg = 0
    /\ workers = EmptyMap
    /\ closer = "none"
    /\ processedCount = 0
    /\ sampleMap = EmptyMap
    /\ emitted = EmptyMap
    /\ merged = EmptyMap
    /\ nClose = 0

\* A mutation: the loop over the String Table takes the strings off the
\* Profile as it writes them.
EncodePart_ConsumesStrings(part, bytes, next) ==
    /\ encPc = part
    /\ buf' = buf \o bytes
    /\ encPc' = next
    /\ prof' = IF part = "stringTable"
               THEN [prof EXCEPT !.StringTable = <<>>] ELSE prof
    /\ UNCHANGED <<pb, mu, convertVars, builderVars, fcall>>

\* One part of Encode: `bytes` is appended to buf and the next part is due.
EncodePart(part, bytes, next) ==
    /\ encPc = part
    /\ buf' = buf \o bytes
    /\ encPc' = next
    /\ UNCHANGED <<prof, pb, mu, convertVars, builderVars, fcall>>

\* for _, st := range p.SampleType { ... }
EncodeSampleTypes ==
    EncodePart("sampleType",
               Concat([i \in DOMAIN prof.SampleType |->
                   LengthDelimited(1, encodeValueType(prof.SampleType[i]))]),
               "sample")

\* for _, s := range p.Sample { ... }
EncodeSamples ==
    EncodePart("sample",
               Concat([i \in DOMAIN prof.Sample |->
                   LengthDelimited(2, encodeSample(prof.Sample[i]))]),
               "location")

\* for _, loc := range p.Location { ... }
EncodeLocations ==
    EncodePart("location",
               Concat([i \in DOMAIN prof.Location |->
                   LengthDelimited(4, encodeLocation(prof.Location[i]))]),
               "function")

\* for _, fn := range p.Function { ... }
EncodeFunctions ==
    EncodePart("function",
               Concat([i \in DOMAIN prof.Function |->
                   LengthDelimited(5, encodeFunction(prof.Function[i]))]),
               "stringTable")

\* for _, s := range p.StringTable { ... }
EncodeStringTable ==
    EncodePart("stringTable",
               Concat([i \in DOMAIN prof.StringTable |->
                   LengthDelimited(6, Bytes(prof.StringTable[i]))]),
               "timeNanos")

\* if p.TimeNanos != 0 { ... }
EncodeTimeNanos ==
    EncodePart("timeNanos",
               IF prof.TimeNanos # 0 THEN VarintField(9, prof.TimeNanos)
               ELSE <<>>,
               "durationNanos")

\* if p.DurationNanos != 0 { ... }
EncodeDurationNanos ==
    EncodePart("durationNanos",
               IF prof.DurationNanos # 0
               THEN VarintField(10, prof.DurationNanos) ELSE <<>>,
               "periodType")

\* if p.PeriodType != nil { ... }
EncodePeriodType ==
    EncodePart("periodType",
               IF prof.PeriodType # <<>>
               THEN LengthDelimited(11, encodeValueType(prof.PeriodType[1]))
               ELSE <<>>,
               "period")

\* if p.Period != 0 { ... }
EncodePeriod ==
    EncodePart("period",
               IF prof.Period # 0 THEN VarintField(12, prof.Period) ELSE <<>>,
               "return")

\* return buf, nil
EncodeReturn ==
    /\ encPc = "return"
    /\ encPc' = "done"
    /\ returned' = returned \cup {[call |-> calls, bytes |-> buf, err |-> "nil"]}
    /\ UNCHANGED <<prof, buf, pb, mu, convertVars, g, calls, fcall>>

\* Encode is called once more on the same Profile: var buf []byte
EncodeAgain ==
    /\ encPc = "done"
    /\ calls < MaxEncodes
    /\ calls' = calls + 1
    /\ buf' = <<>>
    /\ encPc' = "sampleType"
    /\ UNCHANGED <<prof, pb, mu, convertVars, g, returned, fcall>>

NextEncode ==
    \/ EncodeSampleTypes
    \/ EncodeSamples
    \/ EncodeLocations
    \/ EncodeFunctions
    \/ EncodeStringTable
    \/ EncodeTimeNanos
    \/ EncodeDurationNanos
    \/ EncodePeriodType
    \/ EncodePeriod
    \/ EncodeReturn
    \/ EncodeAgain

EncodeSpec == EncodeInit /\ [][NextEncode]_vars

----------------------------------------------------------------------------
(* Properties of EncodeSpec.                                               *)

RECURSIVE ReadVarint(_, _)
\* The base-128 number that starts at bytes[i], and the index behind it;
\* ok is FALSE when the bytes end within it.
ReadVarint(bytes, i) ==
    IF i > Len(bytes) THEN [ok |-> FALSE, value |-> 0, next |-> i]
    ELSE IF bytes[i] >= 128
         THEN LET r == ReadVarint(bytes, i + 1)
              IN  [ok    |-> r.ok,
                   value |-> (bytes[i] - 128) + 128 * r.value,
                   next  |-> r.next]
         ELSE [ok |-> TRUE, value |-> bytes[i], next |-> i + 1]

\* A field as read or as expected: its number, its wire kind, and its
\* value (a varint field) or its length prefix and payload (a
\* length-delimited field).
Field(num, wire, value, payload) ==
    [num |-> num, wire |-> wire, value |-> value, payload |-> payload]

Malformed == Field(-1, -1, 0, <<>>)

RECURSIVE ReadFields(_, _)
\* The fields of a message read from bytes[i] on, each with the payload
\* its length prefix announces; a field that cannot be read ends the list
\* as Malformed.
ReadFields(bytes, i) ==
    IF i > Len(bytes) THEN <<>>
    ELSE LET tag  == ReadVarint(bytes, i)
             num  == tag.value \div 8
             wire == tag.value % 8
             v    == ReadVarint(bytes, tag.next)
         IN  IF ~tag.ok \/ ~v.ok \/ wire \notin {0, 2} THEN <<Malformed>>
             ELSE IF wire = 0
                  THEN <<Field(num, 0, v.value, <<>>)>>
                           \o ReadFields(bytes, v.next)
                  ELSE IF v.next + v.value - 1 > Len(bytes)
                       THEN <<Malformed>>
                       ELSE <<Field(num, 2, v.value,
                                    SubSeq(bytes, v.next,
                                           v.next + v.value - 1))>>
                                \o ReadFields(bytes, v.next + v.value)

\* The length-delimited fields of a list: one per element, in list order.
Repeated(num, payloads) ==
    [i \in DOMAIN payloads |->
        Field(num, 2, Len(payloads[i]), payloads[i])]

\* The top-level fields of the encoding of profile p.
TopLevelFields(p) ==
    Repeated(1, [i \in DOMAIN p.SampleType |-> encodeValueType(p.SampleType[i])])
    \o Repeated(2, [i \in DOMAIN p.Sample |-> encodeSample(p.Sample[i])])
    \o Repeated(4, [i \in DOMAIN p.Location |-> encodeLocation(p.Location[i])])
    \o Repeated(5, [i \in DOMAIN p.Function |-> encodeFunction(p.Function[i])])
    \o Repeated(6, [i \in DOMAIN p.StringTable |-> Bytes(p.StringTable[i])])
    \o (IF p.TimeNanos # 0 THEN <<Field(9, 0, p.TimeNanos, <<>>)>> ELSE <<>>)
    \o (IF p.DurationNanos # 0
        THEN <<Field(10, 0, p.DurationNanos, <<>>)>> ELSE <<>>)
    \o Repeated(11, [i \in DOMAIN p.PeriodType |->
                        encodeValueType(p.PeriodType[i])])
    \o (IF p.Period # 0 THEN <<Field(12, 0, p.Period, <<>>)>> ELSE <<>>)

\* C20: the bytes Encode returns read back as these top-level fields and
\* nothing else: one length-delimited field per element, in list order,
\* with number 1 for each sample type, 2 for each sample, 4 for each
\* location, 5 for each function and 6 for each string; then time_nanos as
\* varint field 9, duration_nanos as varint field 10, period_type as
\* length-delimited field 11 and period as varint field 12, each when it is
\* set; and every length prefix is the number of bytes of the payload
\* behind it, so that the next field starts where the payload ends.
C20_TopLevelLayout ==
    encPc = "done" => ReadFields(buf, 1) = TopLevelFields(prof)

\* C20's case: Encode has returned for a profile with two elements in each
\* list and all four optional fields set.
C20_Witness ==
    /\ encPc = "done"
    /\ Len(prof.SampleType) = 2 /\ Len(prof.Sample) = 2
    /\ Len(prof.Location) = 2 /\ Len(prof.Function) = 2
    /\ Len(prof.StringTable) = 2
    /\ prof.TimeNanos # 0 /\ prof.DurationNanos # 0
    /\ prof.PeriodType # <<>> /\ prof.Period # 0
    /\ Len(buf) > 60

RECURSIVE ReadPacked(_, _)
\* The base-128 numbers that fill bytes from bytes[i] on; -1 ends the list
\* when the bytes end within a number.
ReadPacked(bytes, i) ==
    IF i > Len(bytes) THEN <<>>
    ELSE LET v == ReadVarint(bytes, i)
         IN  IF ~v.ok THEN <<-1>>
             ELSE <<v.value>> \o ReadPacked(bytes, v.next)

\* The payloads of the top-level fields with the given number that the
\* bytes written hold, in their order.
PayloadsOf(num) ==
    LET fields == SelectSeq(ReadFields(buf, 1), LAMBDA f : f.num = num)
    IN  [i \in DOMAIN fields |-> fields[i].payload]

\* The message reads as varint fields with these numbers and values.
ReadsAsVarints(msg, numbers, values) ==
    ReadFields(msg, 1) =
        [i \in DOMAIN numbers |-> Field(numbers[i], 0, values[i], <<>>)]

\* The message of a ValueType: type as varint field 1, unit as field 2.
ReadsAsValueType(msg, vt) ==
    ReadsAsVarints(msg, <<1, 2>>, <<vt.Type, vt.Unit>>)

\* The message of a Sample: location_id as length-delimited field 1 and
\* value as length-delimited field 2, each a run of varints in element
\* order, each left out when its list is empty.
ReadsAsSample(msg, smp) ==
    LET fields == ReadFields(msg, 1)
        lists  == SelectSeq(<<[num |-> 1, list |-> smp.LocationId],
                              [num |-> 2, list |-> smp.Value]>>,
                            LAMBDA l : l.list # <<>>)
    IN  /\ Len(fields) = Len(lists)
        /\ \A i \in DOMAIN fields :
               /\ fields[i].num = lists[i].num
               /\ fields[i].wire = 2
               /\ ReadPacked(fields[i].payload, 1) = lists[i].list

\* The message of a Line: function_id as varint field 1, then line as
\* varint field 2 (Encode writes it when it is not zero).
ReadsAsLine(msg, line) ==
    IF line.Line # 0
    THEN ReadsAsVarints(msg, <<1, 2>>, <<line.FunctionId, line.Line>>)
    ELSE ReadsAsVarints(msg, <<1>>, <<line.FunctionId>>)

\* The message of a Location: id as varint field 1, then one
\* length-delimited field 4 per Line, in order.
ReadsAsLocation(msg, loc) ==
    LET fields == ReadFields(msg, 1)
    IN  /\ Len(fields) = 1 + Len(loc.Line)
        /\ fields[1] = Field(1, 0, loc.Id, <<>>)
        /\ \A i \in DOMAIN loc.Line :
               /\ fields[i + 1].num = 4
               /\ fields[i + 1].wire = 2
               /\ ReadsAsLine(fields[i + 1].payload, loc.Line[i])

\* The message of a Function: id, name, system_name and filename as varint
\* fields 1, 2, 3 and 4.
ReadsAsFunction(msg, fn) ==
    ReadsAsVarints(msg, <<1, 2, 3, 4>>,
                   <<fn.Id, fn.Name, fn.SystemName, fn.Filename>>)

\* Every payload reads as the message of the element at its place.
EachReadsAs(payloads, list, ReadsAs(_, _)) ==
    /\ Len(payloads) = Len(list)
    /\ \A i \in DOMAIN list : ReadsAs(payloads[i], list[i])

\* C21: the nested messages in the bytes Encode returns use the fixed field
\* numbers: a ValueType (sample type or period type) is type:1 and unit:2
\* as varints; a Sample is location_id:1 and value:2, each one packed
\* length-delimited run of varints in element order and absent when the
\* list is empty; a Location is id:1 as a varint and line:4
\* length-delimited, one per Line; a Line is function_id:1 and line:2 as
\* varints; a Function is id:1, name:2, system_name:3 and filename:4 as
\* varints.
C21_NestedLayout ==
    encPc = "done" =>
        /\ EachReadsAs(PayloadsOf(1), prof.SampleType, ReadsAsValueType)
        /\ EachReadsAs(PayloadsOf(2), prof.Sample, ReadsAsSample)
        /\ EachReadsAs(PayloadsOf(4), prof.Location, ReadsAsLocation)
        /\ EachReadsAs(PayloadsOf(5), prof.Function, ReadsAsFunction)
        /\ EachReadsAs(PayloadsOf(11), prof.PeriodType, ReadsAsValueType)

\* C21's case: Encode has returned for a profile with a Sample of two
\* locations and two values next to an empty Sample, a Location of two
\* Lines (one with a line number), a Function and a period type.
C21_Witness ==
    /\ encPc = "done"
    /\ \E i, j \in DOMAIN prof.Sample :
           /\ Len(prof.Sample[i].LocationId) = 2
           /\ Len(prof.Sample[i].Value) = 2
           /\ prof.Sample[j].LocationId = <<>>
    /\ \E i \in DOMAIN prof.Location :
           /\ Len(prof.Location[i].Line) = 2
           /\ prof.Location[i].Line[1].Line # 0
           /\ prof.Location[i].Line[2].Line = 0
    /\ prof.Function # <<>>
    /\ prof.PeriodType # <<>>
    /\ Len(PayloadsOf(4)) = 2

\* No varint field of the list holds the value zero.
NoZeroScalar(fields) ==
    \A i \in DOMAIN fields : fields[i].wire = 0 => fields[i].value # 0

\* The messages of the Lines within the message of a Location.
LinePayloads(msg) ==
    LET fields == SelectSeq(ReadFields(msg, 1), LAMBDA f : f.num = 4)
    IN  [i \in DOMAIN fields |-> fields[i].payload]

\* No scalar of the top level is written with the value zero.
TopLevelZerosOmitted == NoZeroScalar(ReadFields(buf, 1))

\* No scalar of a Line is written with the value zero.
LineZerosOmitted ==
    \A i \in DOMAIN PayloadsOf(4) :
        \A j \in DOMAIN LinePayloads(PayloadsOf(4)[i]) :
            NoZeroScalar(ReadFields(LinePayloads(PayloadsOf(4)[i])[j], 1))

\* No scalar of a ValueType, a Location or a Function is written with the
\* value zero.
MessageZerosOmitted ==
    \A num \in {1, 4, 5, 11} :
        \A i \in DOMAIN PayloadsOf(num) :
            NoZeroScalar(ReadFields(PayloadsOf(num)[i], 1))

\* C22 as claimed: in the bytes Encode returns no scalar field is written
\* with the zero value, neither at the top level (time_nanos,
\* duration_nanos, period) nor inside a nested message (ValueType, Location,
\* Line, Function): a field whose value is zero has no tag and no value
\* bytes.
C22_ZeroScalarsOmitted ==
    encPc = "done" =>
        /\ TopLevelZerosOmitted
        /\ MessageZerosOmitted
        /\ LineZerosOmitted

\* C24: Encode never fails and has no side effect.  No step of Encode
\* changes a field of the Profile; until it returns, Encode can always take
\* its next step; every call returns a nil error; and the calls on one
\* Profile return the same bytes.
C24_EncodePure ==
    /\ [][prof' = prof]_vars
    /\ [](encPc \in {"sampleType", "sample", "location", "function",
                     "stringTable", "timeNanos", "durationNanos",
                     "periodType", "period", "return"}
              => ENABLED NextEncode)
    /\ [](\A r \in returned : r.err = "nil")
    /\ [](\A r1, r2 \in returned : r1.bytes = r2.bytes)

\* C24's case: the second call of Encode on a Profile with Samples,
\* Locations, Functions and strings has returned, and returned bytes.
C24_Witness ==
    /\ encPc = "done"
    /\ Cardinality({r.call : r \in returned}) = 2
    /\ \A r \in returned : Len(r.bytes) > 40
    /\ Len(prof.Sample) = 2 /\ Len(prof.Location) = 2
    /\ Len(prof.Function) = 2 /\ Len(prof.StringTable) = 2

----------------------------------------------------------------------------
(* VarintSpec: one call of encodeVarint on a uint64, a step for each       *)
(* append.                                                                 *)

\* The arguments of the calls: every mix of limbs at the ends of the range
\* and on both sides of the multiples of seven bits.
VarintArgs ==
    {<<w1, w2, w3, w4>> :
        w1 \in {0, 1, 127, 128, 300, 16383, 16384, 65535},
        w2 \in {0, 31, 32, 4095, 4096, 65535},
        w3 \in {0, 7, 8, 1023, 1024, 65535},
        w4 \in {0, 1, 2, 255, 256, 32767, 32768, 65535}}

\* A call of a function in progress, with the rest of the program idle.
CallInit(calls0) ==
    /\ fcall \in calls0
    /\ pc = "call"
    /\ traceEvents = <<>>
    /\ opts = ConvertOptions(1)
    /\ threadEvents = EmptyMap
    /\ pb = NewBuilder
    /\ mu = [readers |-> 0, writer |-> FALSE]
    /\ results = <<>>
    /\ closed = FALSE
    /\ wg = 0
    /\ workers = EmptyMap
    /\ closer = "none"
    /\ processedCount = 0
    /\ sampleMap = EmptyMap
    /\ emitted = EmptyMap
    /\ merged = EmptyMap
    /\ nClose = 0
    /\ g = EmptyMap
    /\ calls = 0
    /\ returned = {}
    /\ EncodeIdle

\* A step of the call changes nothing but the call.
CallOnly ==
    UNCHANGED <<pb, mu, convertVars, builderVars, encodeVars>>

\* encodeVarint(arg) is entered: var buf []byte
VarintCall(arg) ==
    [fn |-> "encodeVarint", arg |-> arg, v |-> arg, buf |-> <<>>,
     pc |-> "loop"]

VarintInit == CallInit({VarintCall(arg) : arg \in VarintArgs})

\* for v >= 0x80 { buf = append(buf, byte(v)|0x80); v >>= 7 }
VarintLoop ==
    /\ fcall.fn = "encodeVarint" /\ fcall.pc = "loop"
    /\ AtLeast128(fcall.v)
    /\ fcall' = [fcall EXCEPT
                    !.buf = Append(@, (LowByte(fcall.v) % 128) + 128),
                    !.v = Shr7(@)]
    /\ CallOnly

\* buf = append(buf, byte(v)); return buf
VarintReturn ==
    /\ fcall.fn = "encodeVarint" /\ fcall.pc = "loop"
    /\ ~AtLeast128(fcall.v)
    /\ fcall' = [fcall EXCEPT !.buf = Append(@, LowByte(fcall.v)),
                              !.pc = "done"]
    /\ CallOnly

NextVarint == VarintLoop \/ VarintReturn

VarintSpec == VarintInit /\ [][NextVarint]_vars

----------------------------------------------------------------------------
(* Properties of VarintSpec.                                               *)

RECURSIVE BitLength(_)
\* The number of bits of n: 0 for 0, else the place of the highest 1.
BitLength(n) == IF n = 0 THEN 0 ELSE 1 + BitLength(n \div 2)

\* The number of bits of a word.
BitLength64(w) ==
    IF w = Zero64 THEN 0
    ELSE LET top == CHOOSE i \in 1..4 :
                        w[i] # 0 /\ \A j \in (i + 1)..4 : w[j] = 0
         IN  16 * (top - 1) + BitLength(w[top])

RECURSIVE GroupSum(_)
\* The sum of (byte & 0x7f) << (7 * i) over the bytes, i from 0: its low 64
\* bits as a word, and whether it stays within 64 bits.
GroupSum(bytes) ==
    IF bytes = <<>> THEN [word |-> Zero64, fits |-> TRUE]
    ELSE LET rest == GroupSum(Tail(bytes))
             sum  == MulAdd(rest.word, 128, Head(bytes) % 128)
         IN  [word |-> sum.word, fits |-> rest.fits /\ sum.carry = 0]

\* The larger of two numbers.
Max(a, b) == IF a >= b THEN a ELSE b

\* The bytes are the standard base-128 encoding of the word.
StandardVarint(bytes, w) ==
    /\ Len(bytes) = Max(1, (BitLength64(w) + 6) \div 7)
    /\ \A i \in 1..(Len(bytes) - 1) : bytes[i] \in 128..255
    /\ bytes[Len(bytes)] \in 0..127
    /\ GroupSum(bytes) = [word |-> w, fits |-> TRUE]

\* C23: for every uint64 v, encodeVarint(v) is the standard little-endian
\* base-128 encoding: max(1, ceil(bitlength(v) / 7)) bytes, every byte but
\* the last with the continuation bit 0x80 and the last without it, and
\* the sum of (byte & 0x7f) << (7 * i) is v; 0 gives [0x00], 128 gives
\* [0x80, 0x01] and 300 gives [0xac, 0x02].
C23_StandardVarint ==
    (fcall.fn = "encodeVarint" /\ fcall.pc = "done") =>
        /\ StandardVarint(fcall.buf, fcall.arg)
        /\ fcall.arg = Uint64(0) => fcall.buf = <<0>>
        /\ fcall.arg = Uint64(128) => fcall.buf = <<128, 1>>
        /\ fcall.arg = Uint64(300) => fcall.buf = <<172, 2>>

\* C23's case: encodeVarint has returned the ten bytes of a value with the
\* highest bit set.
C23_Witness ==
    /\ fcall.fn = "encodeVarint" /\ fcall.pc = "done"
    /\ fcall.arg[4] >= 32768
    /\ Len(fcall.buf) = 10
    /\ fcall.buf[10] = 1

\* The encodeVarint of the encoder's operators, on the numbers it is used
\* for, returns the bytes of the call.
VarintAgrees ==
    (fcall.fn = "encodeVarint" /\ fcall.pc = "done"
        /\ fcall.arg[3] = 0 /\ fcall.arg[4] = 0 /\ fcall.arg[2] < 2 ^ 15) =>
        encodeVarint(fcall.arg[1] + Limb * fcall.arg[2]) = fcall.buf

----------------------------------------------------------------------------
(* GetTidSpec: one call of getTid, a step for the type switch and one for  *)
(* each character of a string.                                             *)
(*                                                                         *)
(* The result is a 64-bit word.  A float64 is num / den when its           *)
(* truncation is an int64; the others (NaN, the infinities, values of      *)
(* magnitude 2^63 and more) are named by `special`: for them the language  *)
(* leaves the result of int64(v) to the implementation, which gives the    *)
(* smallest int64 on amd64 and 0 or the nearest int64 on arm64.            *)

FloatTid(num, den) == [kind |-> "float64", special |-> "no", num |-> num, den |-> den]

SpecialFloatTid(special) == [kind |-> "float64", special |-> special, num |-> 0, den |-> 1]

Int64Tid(v) == [kind |-> "int64", v |-> v]

StringTid(codes) == [kind |-> "string", codes |-> codes]

OtherTid(kind) == [kind |-> kind]

\* "Thread-1234567890/worker": long enough for the hash to pass 2^64.
LongName ==
    <<84, 104, 114, 101, 97, 100, 45, 49, 50, 51, 52, 53, 54, 55, 56, 57, 48,
      47, 119, 111, 114, 107, 101, 114>>

\* "test"
TestName == <<116, 101, 115, 116>>

\* The largest code point, ten times.
HighName == [i \in 1..10 |-> 1114111]

\* The raw thread ids getTid is called on.
RawTids ==
    {IntTid(v) : v \in {-2147483647, -456, -1, 0, 1, 456, 2147483647}}
    \cup {Int64Tid(v) : v \in {-2147483647, -789, -1, 0, 1, 789, 2147483647}}
    \cup {FloatTid(n, 2) : n \in {-247, -3, -2, -1, 0, 1, 2, 3, 246, 247}}
    \cup {SpecialFloatTid(x) : x \in {"NaN", "+Inf", "-Inf", "1e19", "-1e19"}}
    \cup {StringTid(SubSeq(LongName, 1, n)) : n \in 0..Len(LongName)}
    \cup {StringTid(TestName), StringTid(HighName), StringTid(<<0, 0>>)}
    \cup {OtherTid(k) : k \in {"nil", "bool", "[]interface{}", "uint64"}}

\* What int64(v) gives for a float64 whose truncation is no int64.
Unrepresentable(special) ==
    {MinInt64}
    \cup (CASE special = "NaN" -> {Zero64}
            [] special \in {"+Inf", "1e19"} -> {MaxInt64}
            [] OTHER -> {})

\* getTid(tid) is entered.
GetTidCall(tid) == [fn |-> "getTid", tid |-> tid, pc |-> "switch"]

GetTidInit == CallInit({GetTidCall(tid) : tid \in RawTids})

\* return value
GetTidReturns(value) == [fn |-> "getTid", tid |-> fcall.tid, pc |-> "done",
                         ret |-> value]

\* case float64: return int64(v)
GetTidFloat ==
    /\ fcall.fn = "getTid" /\ fcall.pc = "switch"
    /\ fcall.tid.kind = "float64"
    /\ \E value \in (IF fcall.tid.special = "no"
                      THEN {Int64(TruncDiv(fcall.tid.num, fcall.tid.den))}
                      ELSE Unrepresentable(fcall.tid.special)) :
           fcall' = GetTidReturns(value)
    /\ CallOnly

\* case int: return int64(v); case int64: return v
GetTidInt ==
    /\ fcall.fn = "getTid" /\ fcall.pc = "switch"
    /\ fcall.tid.kind \in {"int", "int64"}
    /\ fcall' = GetTidReturns(Int64(fcall.tid.v))
    /\ CallOnly

\* case string: var h int64
GetTidString ==
    /\ fcall.fn = "getTid" /\ fcall.pc = "switch"
    /\ fcall.tid.kind = "string"
    /\ fcall' = [fn |-> "getTid", tid |-> fcall.tid, pc |-> "range",
                 h |-> Zero64, i |-> 0]
    /\ CallOnly

\* for _, c := range v { h = h*31 + int64(c) }
GetTidRange ==
    /\ fcall.fn = "getTid" /\ fcall.pc = "range"
    /\ fcall.i < Len(fcall.tid.codes)
    /\ fcall' = [fcall EXCEPT
                    !.h = MulAdd(@, 31, fcall.tid.codes[fcall.i + 1]).word,
                    !.i = @ + 1]
    /\ CallOnly

\* return h
GetTidHash ==
    /\ fcall.fn = "getTid" /\ fcall.pc = "range"
    /\ fcall.i = Len(fcall.tid.codes)
    /\ fcall' = GetTidReturns(fcall.h)
    /\ CallOnly

\* default: return 0
GetTidDefault ==
    /\ fcall.fn = "getTid" /\ fcall.pc = "switch"
    /\ fcall.tid.kind \notin {"float64", "int", "int64", "string"}
    /\ fcall' = GetTidReturns(Zero64)
    /\ CallOnly

NextGetTid ==
    \/ GetTidFloat
    \/ GetTidInt
    \/ GetTidString
    \/ GetTidRange
    \/ GetTidHash
    \/ GetTidDefault

GetTidSpec == GetTidInit /\ [][NextGetTid]_vars

----------------------------------------------------------------------------
(* Properties of GetTidSpec.  The hash is computed a second time, term by  *)
(* term and in bytes, to be compared with the word the loop leaves.        *)

RECURSIVE TimesPlus(_, _, _)
\* bytes * m + a modulo 256 ^ Len(bytes), the lowest byte first.
TimesPlus(bytes, m, a) ==
    IF bytes = <<>> THEN <<>>
    ELSE LET t == Head(bytes) * m + a
         IN  <<t % 256>> \o TimesPlus(Tail(bytes), m, t \div 256)

RECURSIVE PlusBytes(_, _, _)
\* x + y + carry modulo 256 ^ Len(x), the lowest byte first.
PlusBytes(x, y, carry) ==
    IF x = <<>> THEN <<>>
    ELSE LET t == Head(x) + Head(y) + carry
         IN  <<t % 256>> \o PlusBytes(Tail(x), Tail(y), t \div 256)

RECURSIVE Power31(_)
\* 31 ^ k modulo 2^64, in eight bytes.
Power31(k) ==
    IF k = 0 THEN <<1, 0, 0, 0, 0, 0, 0, 0>>
    ELSE TimesPlus(Power31(k - 1), 31, 0)

RECURSIVE PolynomialHash(_)
\* The sum of code(c) * 31 ^ (characters behind c) over the characters,
\* modulo 2^64, in eight bytes.
PolynomialHash(codes) ==
    IF codes = <<>> THEN <<0, 0, 0, 0, 0, 0, 0, 0>>
    ELSE PlusBytes(TimesPlus(Power31(Len(codes) - 1), Head(codes), 0),
                   PolynomialHash(Tail(codes)), 0)

\* The eight bytes of a word, the lowest first.
BytesOf(w) ==
    [i \in 1..8 |-> IF i % 2 = 1 THEN w[(i + 1) \div 2] % 256
                    ELSE w[i \div 2] \div 256]

\* q is num / den cut off toward zero (den > 0).
IsTruncation(q, num, den) ==
    IF num >= 0 THEN q >= 0 /\ q * den <= num /\ num < (q + 1) * den
    ELSE q <= 0 /\ (-q) * den <= -num /\ -num < (1 - q) * den

\* The numbers a truncation of the model's float64 values can be.
Truncations == -124..124

\* The key is the one the claim gives for an int, an int64, a string or a
\* value of another type.
KeyAsClaimed(tid, key) ==
    CASE tid.kind \in {"int", "int64"} -> key = Int64(tid.v)
      [] tid.kind = "string" -> BytesOf(key) = PolynomialHash(tid.codes)
      [] OTHER -> key = Zero64

\* The key is the truncation of the float64, which is an int64.
TruncationKey(tid, key) ==
    /\ tid.special = "no"
    /\ \E q \in Truncations :
           IsTruncation(q, tid.num, tid.den) /\ key = Int64(q)

\* getTid has returned.
GetTidDone == fcall.fn = "getTid" /\ fcall.pc = "done"

\* getTid can take its next step.
GetTidGoesOn ==
    (fcall.fn = "getTid" /\ fcall.pc # "done") => ENABLED NextGetTid

\* The examples: "test" hashes as in the test, the empty string to 0.
GetTidExamples ==
    GetTidDone =>
        /\ fcall.tid = StringTid(TestName) => fcall.ret = Uint64(3556498)
        /\ fcall.tid = StringTid(<<>>) => fcall.ret = Zero64
        /\ fcall.tid = FloatTid(247, 2) => fcall.ret = Uint64(123)

\* C25 as claimed: getTid never fails and returns, as a 64-bit key, the
\* same integer for an int or int64, the integer truncation for every
\* float64, the base-31 polynomial hash modulo 2^64 for a string (0 for the
\* empty string) and 0 for any other type.
C25_Original ==
    /\ GetTidGoesOn
    /\ GetTidExamples
    /\ GetTidDone =>
           IF fcall.tid.kind = "float64"
           THEN TruncationKey(fcall.tid, fcall.ret)
           ELSE KeyAsClaimed(fcall.tid, fcall.ret)

\* C25, amended: getTid never fails and returns, as a 64-bit key, the same
\* integer for an int or int64, the integer truncation for a float64 whose
\* truncation is an int64 (and some key for any other float64), the
\* base-31 polynomial hash modulo 2^64 for a string (0 for the empty
\* string) and 0 for any other type.
C25_GetTid ==
    /\ GetTidGoesOn
    /\ GetTidExamples
    /\ GetTidDone =>
           IF fcall.tid.kind = "float64"
           THEN fcall.tid.special = "no" =>
                    TruncationKey(fcall.tid, fcall.ret)
           ELSE KeyAsClaimed(fcall.tid, fcall.ret)

\* C25's case: getTid has returned the hash of a string so long that the
\* sum has passed 2^64: the key is not the last character's code plus 31
\* times a number below 2^59.
C25_Witness ==
    /\ GetTidDone
    /\ fcall.tid.kind = "string"
    /\ Len(fcall.tid.codes) = Len(LongName)
    /\ fcall.ret # Zero64
    /\ BytesOf(fcall.ret) = PolynomialHash(fcall.tid.codes)
    /\ PolynomialHash(SubSeq(fcall.tid.codes, 1, 14))[8] >= 128

\* The getTid of the converter's operators, on the thread ids it is used
\* for, returns the key of the call.
GetTidAgrees ==
    (GetTidDone /\ (fcall.tid.kind = "string" => Len(fcall.tid.codes) <= 5)
        /\ (fcall.tid.kind = "float64" => fcall.tid.special = "no")) =>
        Int64(getTid(fcall.tid)) = fcall.ret

----------------------------------------------------------------------------
(* KeySpec: ConvertTrace on events whose raw thread ids are of several     *)
(* dynamic types.                                                          *)

\* The inputs of KeySpec.  Key 1 comes from the int 1 and from the string
\* "\x01"; key 0 from nil and from the float64 -0.5; key 2 only
\* from an event that is skipped.  "a" [0, 8) is on both threads; "b" on
\* thread 1 and "d" on thread 0, both [2, 6), lie within it.
KeyPool ==
    {Event("X", "a", "c", IntTid(1), 0, 8),
     Event("X", "b", "c", StringTid(<<1>>), 2, 4),
     Event("X", "a", "c", OtherTid("nil"), 0, 8),
     Event("X", "d", "c", FloatTid(-1, 2), 2, 4),
     Event("X", "a", "c", IntTid(2), 0, 0)}

KeyInit ==
    ConvertInit(UNION {[1..n -> KeyPool] : n \in 0..MaxEvents},
                {ConvertOptions(1)})

KeySpec == KeyInit /\ [][Next]_vars

----------------------------------------------------------------------------
(* Properties of KeySpec.                                                  *)

\* The raw thread id normalizes to the key k, by the rules of C25.
NormalizesTo(tid, k) ==
    CASE tid.kind = "float64" ->
             tid.special = "no" /\ IsTruncation(k, tid.num, tid.den)
      [] tid.kind \in {"int", "int64"} -> k = tid.v
      [] tid.kind = "string" -> BytesOf(Int64(k)) = PolynomialHash(tid.codes)
      [] OTHER -> k = 0

\* The positions of the kept events in the input.
KeptPositions == {i \in DOMAIN traceEvents : Kept(traceEvents[i])}

\* How many times the list holds x.
TimesIn(list, x) == Cardinality({i \in DOMAIN list : list[i] = x})

RECURSIVE SumOver(_, _)
\* The sum of f over the set S.
SumOver(f, S) ==
    IF S = {} THEN 0
    ELSE LET x == CHOOSE y \in S : TRUE
         IN  f[x] + SumOver(f, S \ {x})

\* The workers that have been started.
Started == {t \in DOMAIN workers : workers[t].pc # "unborn"}

\* C26: there is exactly one worker per normalized thread key with a kept
\* event, started once; every kept event is in the list of exactly one
\* worker, the one of its key, whatever the type of its raw id; and a
\* worker sends one sample per event of its list.
C26_OneWorkerPerKey ==
    /\ pc # "start" =>
           LET ofKey == [i \in KeptPositions |->
                            {t \in DOMAIN workers :
                                NormalizesTo(traceEvents[i].Tid, t)}]
           IN  /\ \A t \in DOMAIN workers :
                      \E i \in KeptPositions : t \in ofKey[i]
               /\ \A i \in KeptPositions :
                      LET x == WithEnd(traceEvents[i])
                          n == [t \in DOMAIN workers |->
                                   TimesIn(threadEvents[t], x)]
                      IN  /\ SumOver(n, DOMAIN workers) =
                                 TimesIn(traceEvents, traceEvents[i])
                          /\ \A t \in DOMAIN workers :
                                 n[t] > 0 <=> t \in ofKey[i]
               /\ \A t \in DOMAIN workers :
                      /\ \A k \in DOMAIN threadEvents[t] :
                             \E i \in KeptPositions :
                                 threadEvents[t][k] = WithEnd(traceEvents[i])
                      /\ Len(emitted[t]) = workers[t].i - 1
                      /\ Len(emitted[t]) <= Len(threadEvents[t])
                      /\ workers[t].pc = "done" =>
                             Len(emitted[t]) = Len(threadEvents[t])
               /\ wg = Cardinality({t \in Started : workers[t].pc = "run"})
               /\ pc \in {"aggregate", "done"} => Started = DOMAIN workers
    /\ pc = "done" => \A t \in DOMAIN workers : workers[t].pc = "done"

\* C26's case: the run is over, there were two workers, and one of them
\* had events with raw ids of different types and sent a sample whose stack
\* is two frames deep.
C26_Witness ==
    /\ pc = "done"
    /\ Cardinality(DOMAIN workers) = 2
    /\ \E t \in DOMAIN workers :
           /\ \E j, k \in DOMAIN threadEvents[t] :
                  threadEvents[t][j].Tid.kind # threadEvents[t][k].Tid.kind
           /\ \E k \in DOMAIN emitted[t] : Len(emitted[t][k].stack) = 2

\* The events of the list at the positions of S, in the list's order.
Pick(list, S) ==
    LET RECURSIVE From(_)
        From(i) == IF i > Len(list) THEN <<>>
                   ELSE (IF i \in S THEN <<list[i]>> ELSE <<>>) \o From(i + 1)
    IN  From(1)

\* The stack of the k-th event of a thread's list, from the list alone: the
\* earlier events that end no sooner than any event after them up to the
\* k-th, and the k-th event itself.
OwnStack(events, k) ==
    LET open == {j \in 1..(k - 1) :
                    \A m \in (j + 1)..k : events[j].End >= events[m].End}
        own  == Pick(events, open \cup {k})
    IN  [i \in DOMAIN own |-> FrameOf(own[i])]

\* The frames of the kept events whose raw id normalizes to the key t.
FramesOfThread(t) ==
    {FrameOf(traceEvents[i]) :
        i \in {j \in KeptPositions : NormalizesTo(traceEvents[j].Tid, t)}}

\* The samples the workers have sent that have this chain of frames.
SentWith(chain) ==
    {p \in SentPositions : ChainOf(emitted[p[1]][p[2]]) = chain}

\* C27: the stack of every sample a worker sends is a function of the
\* worker's own list, which holds kept events of its key only: it is made
\* of frames of that thread, whatever the other threads hold; and when the
\* run is over, the samples of all threads that have one chain of frames
\* are counted in one Sample of the profile.
C27_ThreadsIndependent ==
    /\ \A t \in DOMAIN emitted :
           LET frames == FramesOfThread(t)
           IN  /\ \A i \in DOMAIN threadEvents[t] :
                      NormalizesTo(threadEvents[t][i].Tid, t)
               /\ \A k \in DOMAIN emitted[t] :
                      LET chain == ChainOf(emitted[t][k])
                      IN  /\ chain = OwnStack(threadEvents[t], k)
                          /\ Range(chain) \subseteq frames
    /\ pc = "done" =>
           /\ Len(pb.profile.Sample) = Cardinality(DOMAIN sampleMap)
           /\ \A p \in SentPositions :
                  LET sample == emitted[p[1]][p[2]]
                      key    == KeyOf(sample.stack)
                  IN  /\ Cardinality({x \in DOMAIN merged :
                                         ChainOf(sample) \in merged[x]}) = 1
                      /\ Has(sampleMap, key)
                      /\ sampleMap[key].count >=
                             Cardinality(SentWith(ChainOf(sample)))
                      /\ \E i \in DOMAIN pb.profile.Sample :
                             pb.profile.Sample[i] = ProfileSample(sampleMap[key])

\* C27's case: the run is over; two threads have sent a sample with the
\* same chain, which the profile counts twice in one Sample; one of them
\* has also sent a two-frame stack whose leaf is on no other thread.
C27_Witness ==
    /\ pc = "done"
    /\ \E t, u \in DOMAIN emitted :
           /\ t # u
           /\ \E j \in DOMAIN emitted[t], k \in DOMAIN emitted[u] :
                  /\ ChainOf(emitted[t][j]) = ChainOf(emitted[u][k])
                  /\ sampleMap[KeyOf(emitted[t][j].stack)].count = 2
           /\ \E j \in DOMAIN emitted[t] :
                  /\ Len(emitted[t][j].stack) = 2
                  /\ ChainOf(emitted[t][j])[2] \notin FramesOfThread(u)
    /\ Len(pb.profile.Sample) = 2

\* The step is one of a worker goroutine or of the closing goroutine.
OfAnotherGoroutine == workers' # workers \/ closer' # closer

\* The step is one of ConvertTrace's own goroutine, in its receive loop.
OfTheConsumer ==
    /\ pc = "aggregate" /\ pc' = "aggregate"
    /\ results # <<>> /\ results' = Tail(results)
    /\ ~OfAnotherGoroutine

\* C28: the sample map changes only in a step of the receive loop of
\* ConvertTrace's own goroutine, never in a step of a worker or of the
\* closer and never in a step in which one of them moves; it is empty until
\* that loop starts and fixed once it has ended; and the profile's Samples
\* change only once, in a step taken when the channel is closed and empty,
\* after which the channel stays so.
C28_SingleConsumer ==
    /\ [][/\ sampleMap' # sampleMap => OfTheConsumer
          /\ OfAnotherGoroutine => sampleMap' = sampleMap
          /\ pb'.profile.Sample # pb.profile.Sample =>
                 /\ closed /\ results = <<>>
                 /\ closed' /\ results' = <<>>
                 /\ pc = "aggregate" /\ pc' = "done"
                 /\ pb.profile.Sample = <<>>
                 /\ \A t \in DOMAIN workers : workers[t].pc = "done"
          /\ pc = "done" => results' = <<>> /\ closed']_vars
    /\ [](pc \in {"start", "spawn"} => sampleMap = EmptyMap)
    /\ [](pc # "done" => pb.profile.Sample = <<>>)

\* C28's case: the Samples of a map with two entries, filled from the
\* samples of two workers, are in the profile.
C28_Witness ==
    /\ pc = "done"
    /\ closed /\ results = <<>>
    /\ Cardinality(DOMAIN workers) = 2
    /\ Cardinality(DOMAIN sampleMap) = 2
    /\ Len(pb.profile.Sample) = 2
    /\ \A t \in DOMAIN workers : emitted[t] # <<>>

\* The step is one of the worker of thread t.
WorkerMoves(t) ==
    /\ workers[t].pc = "run"
    /\ workers'[t].i # workers[t].i \/ workers'[t].pc # workers[t].pc

\* The step leaves alone what belongs to the other workers and to
\* ConvertTrace's own goroutine.
KeepsToItself(t) ==
    /\ \A u \in DOMAIN workers \ {t} : workers'[u] = workers[u]
    /\ UNCHANGED <<traceEvents, opts, pc, threadEvents, sampleMap, closed,
                   closer>>

\* C29 as claimed: a step of a worker changes nothing but the worker's own
\* variables, the Builder and the results channel.
C29_Original ==
    [][\A t \in DOMAIN workers :
          WorkerMoves(t) =>
              KeepsToItself(t) /\ UNCHANGED <<processedCount, wg>>]_vars

\* C29, amended: a step of a worker changes nothing but the worker's own
\* variables, the Builder, the results channel, the progress counter (by
\* one, atomically) and the WaitGroup (by one, when it returns); and a step
\* that is not a worker's leaves the workers' variables and the progress
\* counter alone, but for the start of a worker.
C29_SharedState ==
    [][/\ \A t \in DOMAIN workers :
              WorkerMoves(t) =>
                  /\ KeepsToItself(t)
                  /\ processedCount' \in {processedCount, processedCount + 1}
                  /\ wg' \in {wg, wg - 1}
                  /\ processedCount' # processedCount <=>
                         results' = Append(results, emitted'[t][Len(emitted'[t])])
                  /\ wg' # wg <=> workers'[t].pc = "done"
       /\ (\A t \in DOMAIN workers : ~WorkerMoves(t)) =>
              /\ processedCount' = processedCount
              /\ DOMAIN workers # {} =>
                     \A t \in DOMAIN workers :
                         \/ workers'[t] = workers[t]
                         \/ /\ workers[t].pc = "unborn"
                            /\ workers'[t] = [workers[t] EXCEPT !.pc = "run"]
                            /\ wg' = wg + 1]_vars

\* C29's case: two workers have raised the progress counter, one of them
\* has returned and the other is still counted in the WaitGroup.
C29_Witness ==
    /\ Cardinality(DOMAIN workers) = 2
    /\ \A t \in DOMAIN workers : emitted[t] # <<>>
    /\ processedCount >= 2
    /\ wg = 1
    /\ \E t \in DOMAIN workers : workers[t].pc = "done"

----------------------------------------------------------------------------
(* AnalyzeSpec: one call of AnalyzeTrace, one round of its loop at a time. *)

\* The events an input of AnalyzeTrace is drawn from: "op1" in two
\* categories, one of them 1.5 ns long; "op2"; and three events that are
\* not converted: a wrong phase, a zero and a negative duration.
AnalyzePool ==
    {Event("X", "op1", "cat1", IntTid(1), 100, 50),
     Event("X", "op2", "cat1", IntTid(1), 200, 30),
     Event("X", "op1", "cat2", IntTid(2), 300, 3),
     Event("B", "op3", "cat1", IntTid(1), 400, 10),
     Event("X", "op4", "cat1", IntTid(1), 500, 0),
     Event("X", "op4", "cat3", IntTid(2), 600, -20)}

\* analysis := &TraceAnalysis{CategoryStats: make(...), OperationStats: make(...)}
NewAnalysis ==
    [TotalEvents |-> 0, CompleteEvents |-> 0, SkippedZeroDuration |-> 0,
     ConvertedEvents |-> 0, UniqueOperations |-> 0, TotalTimeNs |-> 0,
     CategoryStats |-> EmptyMap, OperationStats |-> EmptyMap]

\* A mutation: the entry is overwritten, not added to.
AddStat_Overwrite(stats, key, durNs) ==
    Put(stats, key, [Count |-> 1, TimeNs |-> durNs])

\* cs := stats[key]; cs.Count++; cs.TimeNs += durNs; stats[key] = cs, where
\* a missing key reads as the zero value.
AddStat(stats, key, durNs) ==
    LET cs == IF Has(stats, key) THEN stats[key]
              ELSE [Count |-> 0, TimeNs |-> 0]
    IN  Put(stats, key, [Count |-> cs.Count + 1, TimeNs |-> cs.TimeNs + durNs])

\* AnalyzeTrace(traceData) is entered.
AnalyzeCall(events) ==
    [fn |-> "AnalyzeTrace", events |-> events, pc |-> "range", i |-> 0,
     analysis |-> NewAnalysis]

AnalyzeInit ==
    CallInit({AnalyzeCall(events) :
                 events \in UNION {[1..n -> AnalyzePool] : n \in 0..MaxEvents}})

\* The loop has an event left: e, the next one.
AnalyzeRound(e) ==
    /\ fcall.fn = "AnalyzeTrace" /\ fcall.pc = "range"
    /\ fcall.i < Len(fcall.events)
    /\ e = fcall.events[fcall.i + 1]

\* analysis.TotalEvents++; if e.Ph != "X" { continue }
AnalyzeOtherPhase ==
    \E e \in AnalyzePool :
        /\ AnalyzeRound(e)
        /\ e.Ph # "X"
        /\ fcall' = [fcall EXCEPT !.i = @ + 1,
                                  !.analysis.TotalEvents = @ + 1]
        /\ CallOnly

\* analysis.CompleteEvents++
\* if e.Dur <= 0 { analysis.SkippedZeroDuration++; continue }
AnalyzeNoDuration ==
    \E e \in AnalyzePool :
        /\ AnalyzeRound(e)
        /\ e.Ph = "X" /\ e.Dur <= 0
        /\ fcall' = [fcall EXCEPT !.i = @ + 1,
                                  !.analysis.TotalEvents = @ + 1,
                                  !.analysis.CompleteEvents = @ + 1,
                                  !.analysis.SkippedZeroDuration = @ + 1]
        /\ CallOnly

\* The rest of the round: the event is counted as converted and its
\* duration added to the total, to its category and to its operation.
AnalyzeConverted ==
    \E e \in AnalyzePool :
        /\ AnalyzeRound(e)
        /\ e.Ph = "X" /\ e.Dur > 0
        /\ LET durNs == DurNs(e.Dur)
           IN  fcall' = [fcall EXCEPT
                   !.i = @ + 1,
                   !.analysis.TotalEvents = @ + 1,
                   !.analysis.CompleteEvents = @ + 1,
                   !.analysis.ConvertedEvents = @ + 1,
                   !.analysis.TotalTimeNs = @ + durNs,
                   !.analysis.CategoryStats = AddStat(@, e.Cat, durNs),
                   !.analysis.OperationStats = AddStat(@, e.Name, durNs)]
        /\ CallOnly

\* analysis.UniqueOperations = len(analysis.OperationStats); return analysis
AnalyzeReturn ==
    /\ fcall.fn = "AnalyzeTrace" /\ fcall.pc = "range"
    /\ fcall.i = Len(fcall.events)
    /\ fcall' = [fcall EXCEPT
                    !.pc = "done",
                    !.analysis.UniqueOperations =
                        Cardinality(DOMAIN fcall.analysis.OperationStats)]
    /\ CallOnly

NextAnalyze ==
    \/ AnalyzeOtherPhase
    \/ AnalyzeNoDuration
    \/ AnalyzeConverted
    \/ AnalyzeReturn

AnalyzeSpec == AnalyzeInit /\ [][NextAnalyze]_vars

----------------------------------------------------------------------------
(* Properties of AnalyzeSpec.                                              *)

\* The positions of the events the loop has been through that satisfy P.
Seen(P(_)) == {k \in 1..fcall.i : P(fcall.events[k])}

IsComplete(e) == e.Ph = "X"

IsZeroDuration(e) == e.Ph = "X" /\ e.Dur <= 0

IsConverted(e) == e.Ph = "X" /\ e.Dur > 0

\* The sum of the TimeNs of the entries of a statistics map.
SumTimeNs(stats) ==
    SumOver([k \in DOMAIN stats |-> stats[k].TimeNs], DOMAIN stats)

\* The sum of the Count of the entries of a statistics map.
SumCount(stats) ==
    SumOver([k \in DOMAIN stats |-> stats[k].Count], DOMAIN stats)

\* C30: after every round of AnalyzeTrace's loop, over the events it has
\* been through: TotalEvents is their number, CompleteEvents the number
\* with phase "X", SkippedZeroDuration the number with phase "X" and
\* duration <= 0, ConvertedEvents the number with phase "X" and duration
\* > 0, the two add up to CompleteEvents, and TotalTimeNs is the sum of the
\* TimeNs of the categories and of the operations; and at return
\* UniqueOperations is the number of distinct names of converted events.
C30_AnalyzePartitions ==
    fcall.fn = "AnalyzeTrace" =>
        LET a         == fcall.analysis
            converted == Seen(IsConverted)
        IN  /\ a.TotalEvents = fcall.i
            /\ a.CompleteEvents = Cardinality(Seen(IsComplete))
            /\ a.SkippedZeroDuration = Cardinality(Seen(IsZeroDuration))
            /\ a.ConvertedEvents = Cardinality(converted)
            /\ a.CompleteEvents = a.SkippedZeroDuration + a.ConvertedEvents
            /\ a.TotalTimeNs = SumTimeNs(a.CategoryStats)
            /\ a.TotalTimeNs = SumTimeNs(a.OperationStats)
            /\ a.TotalTimeNs =
                   SumOver([k \in converted |->
                               (fcall.events[k].Dur * 1000) \div TicksPerUs],
                           converted)
            /\ SumCount(a.CategoryStats) = a.ConvertedEvents
            /\ SumCount(a.OperationStats) = a.ConvertedEvents
            /\ DOMAIN a.OperationStats =
                   {fcall.events[k].Name : k \in converted}
            /\ DOMAIN a.CategoryStats =
                   {fcall.events[k].Cat : k \in converted}
            /\ fcall.pc = "done" =>
                   /\ fcall.i = Len(fcall.events)
                   /\ a.UniqueOperations =
                          Cardinality({fcall.events[k].Name : k \in converted})

\* C30's case: AnalyzeTrace has returned from three events: one operation
\* converted twice, in two categories, and one event skipped for its
\* duration.
C30_Witness ==
    /\ fcall.fn = "AnalyzeTrace" /\ fcall.pc = "done"
    /\ fcall.analysis.TotalEvents = 3
    /\ fcall.analysis.ConvertedEvents = 2
    /\ fcall.analysis.SkippedZeroDuration = 1
    /\ fcall.analysis.UniqueOperations = 1
    /\ Cardinality(DOMAIN fcall.analysis.CategoryStats) = 2
    /\ fcall.analysis.TotalTimeNs > 0

----------------------------------------------------------------------------
(* LoadSpec: one call of LoadTraceFile.                                    *)
(*                                                                         *)
(* A path is the sequence of its characters.  A file is its bytes, whether *)
(* os.Open finds it, and whether it can be repositioned (a regular file    *)
(* can, a pipe cannot).  The formats are abbreviated: a gzip stream is the *)
(* two magic bytes followed by what it holds; the JSON text of a trace     *)
(* with n events is "{", n times "e", "}", after any number of spaces, and *)
(* the decoder stops at the end of the first value.                        *)

GzipMagic == <<31, 139>>

\* The bytes of " ", "e", "{", "}" and "x".
SpaceByte == 32
EventByte == 101
OpenBrace == 123
CloseBrace == 125
OtherByte == 120

\* A mutation: the extension is what follows the first dot.
Ext_FromFirstDot(path) ==
    LET dots == {i \in DOMAIN path : path[i] = "."}
    IN  IF dots = {} THEN <<>>
        ELSE SubSeq(path, CHOOSE i \in dots : \A j \in dots : i <= j,
                    Len(path))

\* filepath.Ext: the suffix of the path from the last dot of its last
\* element on; empty when that element has no dot.
Ext(path) ==
    LET seps  == {i \in DOMAIN path : path[i] = "/"}
        start == IF seps = {} THEN 1
                 ELSE 1 + CHOOSE i \in seps : \A j \in seps : j <= i
        dots  == {i \in start..Len(path) : path[i] = "."}
    IN  IF dots = {} THEN <<>>
        ELSE SubSeq(path, CHOOSE i \in dots : \A j \in dots : j <= i,
                    Len(path))

\* strings.ToLower, on the characters of the model's paths.
ToLower(str) ==
    [i \in DOMAIN str |->
        CASE str[i] = "G" -> "g"
          [] str[i] = "Z" -> "z"
          [] str[i] = "T" -> "t"
          [] OTHER -> str[i]]

\* The nil *TraceData; a trace that was read is <<[TraceEvents |-> n]>>, n
\* the number of its events.
NoData == <<>>

RECURSIVE SkipSpace(_)
SkipSpace(bytes) ==
    IF bytes # <<>> /\ Head(bytes) = SpaceByte THEN SkipSpace(Tail(bytes))
    ELSE bytes

RECURSIVE CountEvents(_)
\* The events up to the closing brace; -1 when the text is not a trace.
CountEvents(bytes) ==
    IF bytes = <<>> THEN -1
    ELSE IF Head(bytes) = CloseBrace THEN 0
    ELSE IF Head(bytes) = EventByte
         THEN LET n == CountEvents(Tail(bytes))
              IN  IF n < 0 THEN -1 ELSE n + 1
    ELSE -1

\* json.NewDecoder(reader).Decode(&traceData) on the bytes the reader gives.
Decode(bytes) ==
    LET text == SkipSpace(bytes)
        n    == IF text # <<>> /\ Head(text) = OpenBrace
                THEN CountEvents(Tail(text)) ELSE -1
    IN  IF n < 0 THEN [data |-> NoData, err |-> "json"]
        ELSE [data |-> <<[TraceEvents |-> n]>>, err |-> "nil"]

\* gzip.NewReader(file) and the bytes its reader gives.
Gunzip(bytes) ==
    IF Len(bytes) >= 2 /\ SubSeq(bytes, 1, 2) = GzipMagic
    THEN [bytes |-> SubSeq(bytes, 3, Len(bytes)), err |-> "nil"]
    ELSE [bytes |-> <<>>, err |-> "gzip"]

\* The paths LoadTraceFile is called with.
Paths ==
    {<<"t", ".", "g", "z">>, <<"t", ".", "G", "Z">>, <<"t", ".", "G", "z">>,
     <<"t">>, <<"t", ".", "j">>, <<".", "g", "z">>,
     <<"d", ".", "g", "z", "/", "t">>, <<"t", ".", "g", "z", ".", "j">>,
     <<"t", ".", "j", ".", "g", "z">>, <<"t", ".", "g", "z", "z">>}

\* The contents of the file at the path.
Contents ==
    {<<>>, <<31>>, GzipMagic,
     <<OpenBrace, CloseBrace>>,
     <<OpenBrace, EventByte, CloseBrace>>,
     <<SpaceByte, SpaceByte, OpenBrace, CloseBrace>>,
     <<OtherByte, OtherByte, OpenBrace, CloseBrace>>,
     <<OtherByte, CloseBrace>>,
     GzipMagic \o <<OpenBrace, EventByte, CloseBrace>>,
     GzipMagic \o <<OtherByte>>,
     GzipMagic \o GzipMagic \o <<OpenBrace, CloseBrace>>}

\* What is at the path: nothing that can be opened, a regular file or a
\* pipe.
Files ==
    {[opens |-> FALSE, seekable |-> FALSE, bytes |-> <<>>]}
    \cup {[opens |-> TRUE, seekable |-> sk, bytes |-> b] :
              sk \in BOOLEAN, b \in Contents}

\* LoadTraceFile(path) is entered.
LoadCall(path, file) ==
    [fn |-> "LoadTraceFile", path |-> path, file |-> file, pc |-> "open",
     pos |-> 0, isGzip |-> FALSE, data |-> NoData, err |-> "nil"]

LoadInit == CallInit({LoadCall(path, file) : path \in Paths, file \in Files})

LoadAt(label) == fcall.fn = "LoadTraceFile" /\ fcall.pc = label

\* return data, err
LoadReturns(data, err) == [fcall EXCEPT !.pc = "done", !.data = data, !.err = err]

\* The bytes of the file from its position on.
Rest == SubSeq(fcall.file.bytes, fcall.pos + 1, Len(fcall.file.bytes))

\* file, err := os.Open(path); if err != nil { return nil, err }
LoadOpenFails ==
    /\ LoadAt("open")
    /\ ~fcall.file.opens
    /\ fcall' = LoadReturns(NoData, "open")
    /\ CallOnly

LoadOpen ==
    /\ LoadAt("open")
    /\ fcall.file.opens
    /\ fcall' = [fcall EXCEPT !.pc = "ext"]
    /\ CallOnly

\* if ext == ".gz" { isGzip = true }
LoadByExtension ==
    /\ LoadAt("ext")
    /\ ToLower(Ext(fcall.path)) = <<".", "g", "z">>
    /\ fcall' = [fcall EXCEPT !.isGzip = TRUE, !.pc = "wrap"]
    /\ CallOnly

\* n, err := file.Read(header): up to two bytes, all that a regular file
\* has of them, at least one of those a pipe has; the position moves on.
\* if err == nil && n == 2 && header[0] == 0x1f && header[1] == 0x8b
LoadReadHeader ==
    /\ LoadAt("ext")
    /\ ToLower(Ext(fcall.path)) # <<".", "g", "z">>
    /\ LET most == IF Len(fcall.file.bytes) < 2 THEN Len(fcall.file.bytes)
                   ELSE 2
       IN  \E n \in (IF fcall.file.seekable \/ most = 0 THEN {most}
                      ELSE 1..most) :
               fcall' = [fcall EXCEPT
                            !.isGzip = (n = 2 /\ SubSeq(fcall.file.bytes, 1, 2)
                                                    = GzipMagic),
                            !.pos = n,
                            !.pc = "seek"]
    /\ CallOnly

\* A mutation: the position is never reset.
LoadSeek_Missing ==
    /\ LoadAt("seek")
    /\ fcall' = [fcall EXCEPT !.pc = "wrap"]
    /\ CallOnly

\* file.Seek(0, 0), whose error (a pipe cannot seek) is not looked at.
LoadSeek ==
    /\ LoadAt("seek")
    /\ fcall' = [fcall EXCEPT !.pos = IF fcall.file.seekable THEN 0 ELSE @,
                              !.pc = "wrap"]
    /\ CallOnly

\* if isGzip { gzReader, err := gzip.NewReader(file); if err != nil
\* { return nil, err } }, then Decode(&traceData) on the reader.
LoadGzip ==
    /\ LoadAt("wrap")
    /\ fcall.isGzip
    /\ LET gz == Gunzip(Rest)
           r  == Decode(gz.bytes)
       IN  fcall' = IF gz.err # "nil" THEN LoadReturns(NoData, gz.err)
                    ELSE LoadReturns(r.data, r.err)
    /\ CallOnly

\* Decode(&traceData) on the file itself.
LoadPlain ==
    /\ LoadAt("wrap")
    /\ ~fcall.isGzip
    /\ LET r == Decode(Rest)
       IN  fcall' = LoadReturns(r.data, r.err)
    /\ CallOnly

NextLoad ==
    \/ LoadOpenFails
    \/ LoadOpen
    \/ LoadByExtension
    \/ LoadReadHeader
    \/ LoadSeek
    \/ LoadGzip
    \/ LoadPlain

LoadSpec == LoadInit /\ [][NextLoad]_vars

----------------------------------------------------------------------------
(* Properties of LoadSpec.                                                 *)

\* The path ends in ".gz", in any case of the letters.
EndsInGz(path) ==
    /\ Len(path) >= 3
    /\ path[Len(path) - 2] = "."
    /\ path[Len(path) - 1] \in {"g", "G"}
    /\ path[Len(path)] \in {"z", "Z"}

\* The file starts with the two bytes 0x1f 0x8b.
StartsWithMagic(bytes) ==
    Len(bytes) >= 2 /\ bytes[1] = 31 /\ bytes[2] = 139

\* What the whole content gives, read as gzip or as plain JSON.
LoadedAs(gzipped, bytes) ==
    IF gzipped
    THEN IF Gunzip(bytes).err # "nil" THEN [data |-> NoData, err |-> "gzip"]
         ELSE Decode(Gunzip(bytes).bytes)
    ELSE Decode(bytes)

\* LoadTraceFile has returned what the claim says for this call.
LoadsAsClaimed ==
    IF ~fcall.file.opens
    THEN fcall.err # "nil" /\ fcall.data = NoData
    ELSE LET gzipped == \/ EndsInGz(fcall.path)
                        \/ StartsWithMagic(fcall.file.bytes)
             expected == LoadedAs(gzipped, fcall.file.bytes)
         IN  /\ fcall.data = expected.data
             /\ fcall.err = "nil" <=> expected.err = "nil"

\* C31: LoadTraceFile reads the file as gzip exactly when the path ends in
\* .gz (in any case) or else the content starts with 0x1f 0x8b, and as
\* plain JSON from its first byte otherwise; a file that cannot be opened
\* gives an error and no data.
C31_LoadDetects ==
    (fcall.fn = "LoadTraceFile" /\ fcall.pc = "done") => LoadsAsClaimed

\* The same for the files that can be repositioned.
LoadsRegularFiles ==
    (fcall.fn = "LoadTraceFile" /\ fcall.pc = "done"
        /\ (fcall.file.opens => fcall.file.seekable)) => LoadsAsClaimed

\* A call on a regular file without the extension whose content has the
\* magic number has returned a trace.
LoadsRegularWitness ==
    /\ fcall.fn = "LoadTraceFile" /\ fcall.pc = "done"
    /\ fcall.file.seekable /\ ~EndsInGz(fcall.path)
    /\ StartsWithMagic(fcall.file.bytes)
    /\ fcall.err = "nil" /\ fcall.data # NoData

----------------------------------------------------------------------------
(* StackSpec: one call of ProcessThreadEvents on a thread's sorted events, *)
(* one rule of its loop at a time: the pops from the top, the containment  *)
(* filter, then the sample and the push.  The samples go to a channel that *)
(* is always received from (Spec has the bounded one).                     *)
(*                                                                         *)
(* History, besides the code's variables: `ids` holds, for each entry of   *)
(* the stack, the position in `events` of the event it was pushed for;     *)
(* `pushed` the positions in the order of the pushes; `removed` the        *)
(* positions of the entries taken off, in order; `sent` the samples, with  *)
(* the positions of their frames.                                          *)

\* The events of the thread: "a" [0, 4); "b" [1, 5), which overlaps "a" and
\* outlasts it; "c" [2, 3), within both; "d" [1, 4), which ends with "a";
\* "e" [5, 6), which starts after "a" has ended and when "b" ends; "f"
\* [0, 6), which starts with "a" and contains all.
StackPool ==
    {Event("X", "a", "c", IntTid(1), 0, 4),
     Event("X", "b", "c", IntTid(1), 1, 4),
     Event("X", "c", "c", IntTid(1), 2, 1),
     Event("X", "d", "c", IntTid(1), 1, 3),
     Event("X", "e", "c", IntTid(1), 5, 1),
     Event("X", "f", "c", IntTid(1), 0, 6)}

\* The lists ConvertTrace hands to ProcessThreadEvents: kept events of one
\* key with their ends, in ascending start time.
SortedLists ==
    {MapWithEnd(l) : l \in {x \in UNION {[1..n -> StackPool] : n \in 0..MaxEvents} :
                               \A i, j \in DOMAIN x : i < j => x[i].Ts <= x[j].Ts}}

\* ProcessThreadEvents(events, pb, results, counter) is entered.
StackCall(events) ==
    [fn |-> "ProcessThreadEvents", events |-> events, pc |-> "pop", i |-> 1,
     stack |-> <<>>, counter |-> 0,
     ids |-> <<>>, pushed |-> <<>>, removed |-> <<>>, sent |-> <<>>]

StackInit == CallInit({StackCall(events) : events \in SortedLists})

StackAt(label) == fcall.fn = "ProcessThreadEvents" /\ fcall.pc = label

\* The positions of a list from the first to the last, as a list.
Positions(from, to) == [k \in 1..(to - from + 1) |-> from + k - 1]

\* for len(stack) > 0 && stack[len(stack)-1].event.End < event.Ts { pop }
StackPop ==
    /\ StackAt("pop")
    /\ fcall.i <= Len(fcall.events)
    /\ LET event == fcall.events[fcall.i]
           left  == PopEnded(fcall.stack, event)
       IN  fcall' = [fcall EXCEPT
               !.stack = left,
               !.ids = SubSeq(@, 1, Len(left)),
               !.removed = @ \o [k \in 1..(Len(fcall.stack) - Len(left)) |->
                                    fcall.ids[Len(fcall.stack) + 1 - k]],
               !.pc = "filter"]
    /\ CallOnly

\* newStack := stack[:0]; for _, s := range stack { if s.event.End >=
\* event.End { newStack = append(newStack, s) } }; stack = newStack
StackFilter ==
    /\ StackAt("filter")
    /\ LET event == fcall.events[fcall.i]
           keep  == {p \in DOMAIN fcall.stack :
                        fcall.stack[p].event.End >= event.End}
           gone  == DOMAIN fcall.stack \ keep
       IN  fcall' = [fcall EXCEPT
               !.stack = KeepContaining(@, event),
               !.ids = Pick(@, keep),
               !.removed = @ \o Pick(fcall.ids, gone),
               !.pc = "send"]
    /\ CallOnly

\* A mutation: the event is not pushed.
StackSend_NoPush ==
    /\ StackAt("send")
    /\ LET event == fcall.events[fcall.i]
       IN  fcall' = [fcall EXCEPT
               !.sent = Append(@, [sample |-> SampleOf(fcall.stack, event),
                                   ids |-> Append(fcall.ids, fcall.i)]),
               !.counter = @ + 1,
               !.i = @ + 1,
               !.pc = "pop"]
    /\ CallOnly

\* The sample is built from the stack and the event, the event is pushed,
\* the sample is sent and the counter raised.
StackSend ==
    /\ StackAt("send")
    /\ LET event == fcall.events[fcall.i]
       IN  fcall' = [fcall EXCEPT
               !.stack = Append(@, StackEntry(event)),
               !.ids = Append(@, fcall.i),
               !.pushed = Append(@, fcall.i),
               !.sent = Append(@, [sample |-> SampleOf(fcall.stack, event),
                                   ids |-> Append(fcall.ids, fcall.i)]),
               !.counter = @ + 1,
               !.i = @ + 1,
               !.pc = "pop"]
    /\ CallOnly

\* The range loop is over.
StackReturn ==
    /\ StackAt("pop")
    /\ fcall.i > Len(fcall.events)
    /\ fcall' = [fcall EXCEPT !.pc = "done"]
    /\ CallOnly

NextStack ==
    \/ StackPop
    \/ StackFilter
    \/ StackSend
    \/ StackReturn

StackSpec == StackInit /\ [][NextStack]_vars

----------------------------------------------------------------------------
(* Properties of StackSpec.                                                *)

\* a starts first, b starts before a ends and ends after a ends.
PartlyOverlaps(a, b) == a.Ts < b.Ts /\ b.Ts < a.End /\ a.End < b.End

\* The event at position k has been through the rules of its round.
Filtered(k) == fcall.i > k \/ (fcall.i = k /\ fcall.pc = "send")

\* The events on the stack, bottom first.
OnStack == [p \in DOMAIN fcall.stack |-> fcall.stack[p].event]

\* C32: when a and b of the thread partly overlap, a is off the stack once
\* b has been through the rules, and neither the stack nor the sample of b
\* or of any later event holds a, not even that of an event within a.
C32_OverlapDrops ==
    fcall.fn = "ProcessThreadEvents" =>
        \A a, b \in DOMAIN fcall.events :
            PartlyOverlaps(fcall.events[a], fcall.events[b]) =>
                /\ a < b
                /\ Filtered(b) =>
                       /\ a \notin Range(fcall.ids)
                       /\ fcall.events[a] \notin Range(OnStack)
                       /\ a \in Range(fcall.removed)
                /\ \A k \in DOMAIN fcall.sent :
                       k >= b =>
                           /\ a \notin Range(fcall.sent[k].ids)
                           /\ FrameOf(fcall.events[a]) \notin
                                  Range(ChainOf(fcall.sent[k].sample))

\* C32's case: "a", "b", "c" have been processed: "c" lies within "a" and
\* within "b", "a" and "b" partly overlap, and the stack of "c" is "b", "c".
C32_Witness ==
    /\ StackAt("done")
    /\ Len(fcall.events) = 3
    /\ PartlyOverlaps(fcall.events[1], fcall.events[2])
    /\ Encloses(fcall.events[1], fcall.events[3])
    /\ Encloses(fcall.events[2], fcall.events[3])
    /\ fcall.sent[3].ids = <<2, 3>>
    /\ Len(fcall.sent[3].sample.names) = 2

\* No element occurs twice in the list.
NoRepeats(list) == \A i, j \in DOMAIN list : list[i] = list[j] => i = j

\* The history agrees with the stack of the code: entry p was pushed for
\* the event at position ids[p].
IdsOfStack ==
    /\ Len(fcall.ids) = Len(fcall.stack)
    /\ \A p \in DOMAIN fcall.stack :
           fcall.stack[p] = StackEntry(fcall.events[fcall.ids[p]])

\* The sample sent for the k-th event is made of the frames of the events
\* at the positions recorded with it.
IdsOfSample(k) ==
    ChainOf(fcall.sent[k].sample) =
        [p \in DOMAIN fcall.sent[k].ids |->
            FrameOf(fcall.events[fcall.sent[k].ids[p]])]

\* C33: the events processed so far have been pushed once each, in order,
\* when they were processed; every pushed entry is either on the stack or
\* has been removed, once; and an entry that has been removed is not put
\* back by any step, nor is it in a sample sent afterwards.
C33_PushedOnce ==
    /\ [](fcall.fn = "ProcessThreadEvents" =>
             /\ IdsOfStack
             /\ fcall.pushed = Positions(1, Len(fcall.sent))
             /\ Len(fcall.sent) = fcall.counter
             /\ fcall.i = Len(fcall.sent) + 1
             /\ NoRepeats(fcall.removed) /\ NoRepeats(fcall.ids)
             /\ Range(fcall.removed) \cap Range(fcall.ids) = {}
             /\ Range(fcall.removed) \cup Range(fcall.ids) =
                    Range(fcall.pushed)
             /\ \A k \in DOMAIN fcall.sent : IdsOfSample(k))
    /\ [][fcall.fn = "ProcessThreadEvents" =>
             /\ \A p \in Range(fcall.removed) :
                    /\ p \in Range(fcall'.removed)
                    /\ p \notin Range(fcall'.ids)
                    /\ \A k \in DOMAIN fcall'.sent \ DOMAIN fcall.sent :
                           p \notin Range(fcall'.sent[k].ids)
             /\ \A k \in DOMAIN fcall.sent : fcall'.sent[k] = fcall.sent[k]
             /\ fcall'.pushed # fcall.pushed =>
                    /\ fcall'.pushed = Append(fcall.pushed, fcall.i)
                    /\ fcall'.stack =
                           Append(fcall.stack,
                                  StackEntry(fcall.events[fcall.i]))]_vars

\* C33's case: three events have been processed, two entries have been
\* removed, by different events, and one is left.
C33_Witness ==
    /\ StackAt("done")
    /\ Len(fcall.pushed) = 3
    /\ Len(fcall.removed) = 2
    /\ Len(fcall.stack) = 1
    /\ Len(fcall.sent[2].ids) = 2

\* The earlier events that end no sooner than any event after them up to
\* the k-th, and k itself: positions, in ascending order.
AncestorsOf(k) ==
    LET ev == fcall.events
    IN  Pick(Positions(1, k),
             {i \in 1..(k - 1) : \A j \in (i + 1)..k : ev[i].End >= ev[j].End}
                 \cup {k})

\* C34: the stack sent for the k-th event is made of the earlier events
\* that end no sooner than any event after them up to the k-th, in
\* processing order, and of the k-th event; an earlier event that ends with
\* the k-th, with none between them ending later, is among them; and the
\* pops from the top take nothing off that the containment filter would
\* have kept.
C34_StackIsContainers ==
    /\ [](fcall.fn = "ProcessThreadEvents" =>
             \A k \in DOMAIN fcall.sent :
                 /\ fcall.sent[k].ids = AncestorsOf(k)
                 /\ ChainOf(fcall.sent[k].sample) = OwnStack(fcall.events, k)
                 /\ \A i \in 1..(k - 1) :
                        (/\ fcall.events[i].End = fcall.events[k].End
                         /\ \A j \in (i + 1)..k :
                                fcall.events[j].End <= fcall.events[k].End)
                            => i \in Range(fcall.sent[k].ids))
    /\ [][(StackAt("pop") /\ fcall'.pc = "filter") =>
             KeepContaining(fcall'.stack, fcall.events[fcall.i]) =
                 KeepContaining(fcall.stack, fcall.events[fcall.i])]_vars

\* C34's case: the third event ends with the first and after the second,
\* which the pops from the top have taken off: its stack is the first and
\* itself.
C34_Witness ==
    /\ StackAt("done")
    /\ Len(fcall.events) = 3
    /\ fcall.events[1].End = fcall.events[3].End
    /\ fcall.events[2].End < fcall.events[3].Ts
    /\ fcall.sent[2].ids = <<1, 2>>
    /\ fcall.sent[3].ids = <<1, 3>>
    /\ fcall.removed = <<2>>

\* C35: in every state of ProcessThreadEvents the entries of the stack are
\* in the order they were processed in and their end times do not increase
\* from the bottom to the top; so what the containment filter keeps is the
\* stack up to some entry, and what it removes is the run above it.
C35_EndsDescend ==
    /\ [](fcall.fn = "ProcessThreadEvents" =>
             \A p, q \in DOMAIN fcall.stack :
                 p < q => /\ fcall.stack[p].event.End >= fcall.stack[q].event.End
                          /\ fcall.ids[p] < fcall.ids[q])
    /\ [][(StackAt("filter") /\ fcall'.pc = "send") =>
             /\ fcall'.stack = SubSeq(fcall.stack, 1, Len(fcall'.stack))
             /\ \A p \in DOMAIN fcall.stack :
                    p > Len(fcall'.stack) <=>
                        fcall.stack[p].event.End < fcall.events[fcall.i].End]_vars

\* C35's case: the filter has taken the top entry off a stack of two and
\* kept the one below, for an event that started before the top entry
\* ended.
C35_Witness ==
    /\ StackAt("send")
    /\ fcall.i = 3
    /\ fcall.ids = <<1>>
    /\ fcall.removed = <<2>>
    /\ fcall.events[2].End >= fcall.events[3].Ts
    /\ fcall.events[1].End > fcall.events[3].End

----------------------------------------------------------------------------
(* Properties of the conversion's counts, checked in KeySpec.              *)

\* The sum of the occurrence counts (Value[0] in the code's 0-based
\* indexing) over the Samples of the profile.
SampleCountSum ==
    SumOver([i \in DOMAIN pb.profile.Sample |-> pb.profile.Sample[i].Value[1]],
            DOMAIN pb.profile.Sample)

\* C36: the workers never count more events than were kept, and count one
\* per sample sent; in the returned profile the occurrence counts of the
\* Samples add up to the number of input events with phase "X" and a
\* positive duration, which is also the final value of the shared counter.
C36_OnePerKeptEvent ==
    /\ processedCount = SentCount
    /\ processedCount <= Cardinality(KeptPositions)
    /\ pc = "done" =>
          /\ SampleCountSum = Cardinality(KeptPositions)
          /\ processedCount = Cardinality(KeptPositions)

\* C36's case: a returned profile for three events of which one was
\* skipped and the two others, of different threads, share a Sample.
C36_Witness ==
    /\ pc = "done"
    /\ Len(traceEvents) = 3
    /\ Cardinality(KeptPositions) = 2
    /\ Cardinality(DOMAIN workers) = 2
    /\ \E i \in DOMAIN pb.profile.Sample : pb.profile.Sample[i].Value[1] = 2

\* The tables of the Builder b and their indexes.
TablesOf(b) ==
    <<b.profile.StringTable, b.profile.Function, b.profile.Location,
      b.stringIndex, b.functionIndex, b.locationIndex>>

\* C37: in a run of ConvertTrace the Builder's tables and indexes change
\* only in steps of ConvertTrace's own goroutine: in its setup, before any
\* worker exists, and in a round of the receive loop on a sample whose
\* stack key is not yet in the sample map, in which no worker and not the
\* closer moves; a step of a worker or of the closer leaves the whole
\* Builder as it is.
C37_OnlyConsumerInterns ==
    [][/\ TablesOf(pb') # TablesOf(pb) =>
             /\ processedCount' = processedCount /\ wg' = wg
             /\ \/ pc = "start" /\ Started = {}
                \/ /\ OfTheConsumer
                   /\ ~Has(sampleMap, KeyOf(Head(results).stack))
                   /\ Has(sampleMap', KeyOf(Head(results).stack))
       /\ (pc # "start" /\ OfAnotherGoroutine) => pb' = pb
       /\ \A t \in DOMAIN workers : WorkerMoves(t) => pb' = pb]_vars

\* C37's case: the receive loop has taken two samples of one stack key and
\* one of another, of two workers, and the tables hold the functions of
\* both keys.
C37_Witness ==
    /\ pc = "aggregate"
    /\ Cardinality(DOMAIN workers) = 2
    /\ \A t \in DOMAIN workers : emitted[t] # <<>>
    /\ Cardinality(DOMAIN sampleMap) = 2
    /\ \E k \in DOMAIN sampleMap : sampleMap[k].count = 2
    /\ Len(pb.profile.Function) >= 2

----------------------------------------------------------------------------
(* Properties of the Builder's keys and locks, checked in BuilderSpec.     *)

\* The (name, filename) pairs that returned calls of operation op were for.
PairsAsked(op) == {<<r.name, r.filename>> : r \in {x \in returned : x.op = op}}

\* C38 as claimed: two returned calls of GetOrCreateFunction, or of
\* GetOrCreateLocation, for different (name, filename) pairs have different
\* ids, and each pair asked for has an entry of its own in the list.
C38_InjectiveOnKeys ==
    /\ \A r1, r2 \in returned :
           (/\ r1.op = r2.op
            /\ r1.op \in {"GetOrCreateFunction", "GetOrCreateLocation"}
            /\ <<r1.name, r1.filename>> # <<r2.name, r2.filename>>)
               => r1.ret # r2.ret
    /\ Len(pb.profile.Function) >=
           Cardinality(PairsAsked("GetOrCreateFunction")
                          \cup PairsAsked("GetOrCreateLocation"))
    /\ Len(pb.profile.Location) >=
           Cardinality(PairsAsked("GetOrCreateLocation"))

\* GetOrCreateFunction and GetOrCreateLocation are injective on the pairs
\* whose joined keys differ.
InjectiveOnIndexKeys ==
    \A r1, r2 \in returned :
        (/\ r1.op = r2.op
         /\ r1.op \in {"GetOrCreateFunction", "GetOrCreateLocation"}
         /\ IndexKey(r1.name, r1.filename) # IndexKey(r2.name, r2.filename))
            => r1.ret # r2.ret

\* Two calls of one operation for pairs with different keys have returned.
InjectiveOnIndexKeysWitness ==
    \E r1, r2 \in returned :
        /\ r1.op = r2.op
        /\ r1.op = "GetOrCreateLocation"
        /\ IndexKey(r1.name, r1.filename) # IndexKey(r2.name, r2.filename)

----------------------------------------------------------------------------
(* LockSpec: the Builder's operations called from several goroutines,      *)
(* under fair scheduling.                                                  *)
(*                                                                         *)
(* The steps are those of BuilderSpec; the calls are one of each           *)
(* operation.  A goroutine that can take a step takes one in the end: the  *)
(* Go scheduler runs every runnable goroutine, and sync.RWMutex hands the  *)
(* lock to a goroutine that waits for it once it stays free.               *)

\* The calls of LockSpec: one of each operation, on strings that two of
\* them share.
LockCalls ==
    {c \in Calls :
        \/ c.op = "AddString" /\ c.name = "a"
        \/ c.op \in {"GetOrCreateFunction", "GetOrCreateLocation"}
               /\ <<c.name, c.filename>> = <<"a", "c">>
        \/ c.op = "SetPeriodType"}

\* A step of goroutine p inside a call.
GoroutineStep(p) ==
    RLock(p) \/ Read(p) \/ Lock(p) \/ Write(p) \/ Store(p)

NextLocks ==
    \/ \E p \in Goroutines : \E c \in LockCalls : Call(p, c)
    \/ \E p \in Goroutines : RLock(p)
    \/ \E p \in Goroutines : Read(p)
    \/ \E p \in Goroutines : Lock(p)
    \/ \E p \in Goroutines : Write(p)
    \/ \E p \in Goroutines : Store(p)

LockFairness == \A p \in Goroutines : WF_vars(GoroutineStep(p))

LockSpec == InitBuilder /\ [][NextLocks]_vars /\ LockFairness

\* The goroutines whose call is at one of the given places.
GoroutinesAt(places) == {p \in Goroutines : g[p].pc \in places}

\* The mutex is held by exactly the goroutines between a lock and its
\* unlock: the read lock by those in the look-up, the write lock by the one
\* in the critical section; a goroutine that asks for a lock, has returned
\* or stores a ValueType holds none.
LocksHeldInSections ==
    /\ mu.readers = Cardinality(GoroutinesAt({"read"}))
    /\ mu.writer <=> GoroutinesAt({"write"}) # {}
    /\ Cardinality(GoroutinesAt({"write"})) <= 1
    /\ mu.writer => mu.readers = 0

\* C39: a goroutine holds the Builder's mutex only between a lock and the
\* unlock that follows it in the same operation, so that it asks for the
\* write lock only after it gave back the read lock, never asks for the
\* mutex while it holds it, and holds nothing when it has returned; and
\* under fair scheduling every call that was started returns, whatever the
\* other goroutines call.
C39_NoDeadlock ==
    /\ [](LocksHeldInSections)
    /\ \A p \in Goroutines : (g[p].pc # "idle") ~> (g[p].pc = "idle")
    /\ <>[](\A p \in Goroutines : g[p].pc = "idle")

\* C39's case: one goroutine waits for the write lock after a miss while
\* the other is in its look-up under the read lock.
C39_Witness ==
    /\ g["g1"].pc = "lock"
    /\ g["g2"].pc = "read"
    /\ mu.readers = 1
    /\ ~LockFree
    /\ g["g1"].op = "GetOrCreateLocation"

====
